---- MODULE Spec2Model ----
(***************************************************************************)
(* A model of eventbook: the in-memory event store, the document           *)
(* projection, the fractional-index algebra and the HTTP / WebSocket       *)
(* server that coordinates them.                                           *)
(*                                                                         *)
(* Strings of the fractional-index module are sequences of byte codes      *)
(* (ASCII), so that Rust's string comparison is the lexicographic order    *)
(* on the codes and the conversions to and from alphabet positions are     *)
(* modelled by what they compute.                                          *)
(***************************************************************************)
EXTENDS Integers, Sequences, FiniteSets, TLC

VARIABLES
    frac,       \* fractional-index harness: the call in progress and its result
    store,      \* an InMemoryEventStore: [events, version_map]
    call,       \* the last append_event call made on `store` and what it returned
    inc,        \* a DocumentProjection fed the log of `store` by apply_new_events
    fed,        \* how many events of the log `inc` has been fed
    reb,        \* a DocumentProjection and its last rebuild_from_events call
    mat,        \* a materializer state folded event by event through apply_event
    listing,    \* the last get_document_cells call on the state of `mat`
    client,     \* an EventBookClient, its last call and the submissions so far
    stores,     \* server: AppState.stores, store_id -> InMemoryEventStore
    projections,\* server: AppState.projections, store_id -> DocumentProjection
    wlock,      \* server: the task holding each RwLock of AppState for writing
    connections,\* server: ConnectionManager.connections, store_id -> connection ids
    conn,       \* server: each WebSocket connection: task position, channel, socket
    req,        \* server: each HTTP request task: position, locals, response
    hist        \* server: the submits in the order they took the stores write lock

fvars == <<frac>>
svars == <<store, call>>
pvars == <<inc, fed, reb>>
mvars == <<mat>>
lvars == <<listing>>
cvars == <<client>>
wvars == <<stores, projections, wlock, connections, conn, req, hist>>
vars == <<frac, store, call, inc, fed, reb, mat, listing, client,
          stores, projections, wlock, connections, conn, req, hist>>

\* What the actions of one harness leave alone.
notfrac == <<store, call, inc, fed, reb, mat, listing, client, wvars>>
notstore == <<frac, inc, fed, reb, mat, listing, client, wvars>>
notproj == <<frac, mat, listing, client, wvars>>
notserver == <<frac, store, call, inc, fed, reb, mat, listing, client>>
notmat == <<frac, store, call, inc, fed, reb, listing, client, wvars>>
notcells == <<frac, store, call, inc, fed, reb, client, wvars>>
notclient == <<frac, store, call, inc, fed, reb, mat, listing,
               wlock, connections, conn, hist>>

(***************************************************************************)
(* Generic helpers                                                         *)
(***************************************************************************)
Last(s) == s[Len(s)]
Front(s) == SubSeq(s, 1, Len(s) - 1)
Max2(a, b) == IF a >= b THEN a ELSE b

\* Rust's Ord on str / [u8]: lexicographic on bytes, a proper prefix is smaller.
RECURSIVE StrLessFrom(_, _, _)
StrLessFrom(a, b, i) ==
    IF i > Len(b) THEN FALSE
    ELSE IF i > Len(a) THEN TRUE
    ELSE IF a[i] < b[i] THEN TRUE
    ELSE IF a[i] > b[i] THEN FALSE
    ELSE StrLessFrom(a, b, i + 1)

StrLess(a, b) == StrLessFrom(a, b, 1)

(***************************************************************************)
(* core/src/fractional_index.rs                                            *)
(***************************************************************************)
\* b"0123456789ABCDEFGHIJKLMNOPQRSTUVWXYZabcdefghijklmnopqrstuvwxyz"
CHARS ==
    [i \in 1..62 |-> IF i <= 10 THEN 47 + i ELSE IF i <= 36 THEN 54 + i ELSE 60 + i]

BASE == Len(CHARS)

\* Option::None of a position or of a character.
None == -1

\* Result<T, FractionalIndexError>
FOk(v) == [ok |-> TRUE, val |-> v, err |-> "", ch |-> None]
FErr(e, c) == [ok |-> FALSE, val |-> <<>>, err |-> e, ch |-> c]

initial == <<97, 48>>   \* "a0"

char_at(pos) == CHARS[(pos % BASE) + 1]

char_pos(c) ==
    IF \E i \in 1..BASE : CHARS[i] = c
    THEN (CHOOSE i \in 1..BASE : CHARS[i] = c /\ \A j \in 1..(i - 1) : CHARS[j] # c) - 1
    ELSE None

is_valid_char(c) == char_pos(c) # None

get_previous_char(c) ==
    LET pos == char_pos(c) IN
    IF pos = None THEN None
    ELSE IF pos > 0 THEN char_at(pos - 1) ELSE None

\* Mutant of get_next_char: the bound check is off by one, so 'z' wraps to '0'.
get_next_char_wraps(c) ==
    LET pos == char_pos(c) IN
    IF pos = None THEN None
    ELSE IF pos < BASE THEN char_at(pos + 1) ELSE None

get_next_char(c) ==
    LET pos == char_pos(c) IN
    IF pos = None THEN None
    ELSE IF pos < BASE - 1 THEN char_at(pos + 1) ELSE None

validate_index(index) ==
    IF Len(index) = 0 THEN FErr("InvalidIndex", None)
    ELSE IF \E i \in 1..Len(index) : ~is_valid_char(index[i])
    THEN LET k == CHOOSE i \in 1..Len(index) :
                      /\ ~is_valid_char(index[i])
                      /\ \A j \in 1..(i - 1) : is_valid_char(index[j])
         IN FErr("InvalidCharacter", index[k])
    ELSE FOk(<<>>)

is_valid_order(indices) ==
    \A i \in 1..(Len(indices) - 1) : StrLess(indices[i], indices[i + 1])

to_digits(index) ==
    IF \E i \in 1..Len(index) : char_pos(index[i]) = None
    THEN LET k == CHOOSE i \in 1..Len(index) :
                      /\ char_pos(index[i]) = None
                      /\ \A j \in 1..(i - 1) : char_pos(index[j]) # None
         IN FErr("InvalidCharacter", index[k])
    ELSE FOk([i \in 1..Len(index) |-> char_pos(index[i])])

from_digits(digits) == [i \in 1..Len(digits) |-> char_at(digits[i])]

\* The for loop of midpoint, from 0-based position i with `result` so far.
RECURSIVE midpoint_loop(_, _, _, _)
midpoint_loop(a, b, i, result) ==
    IF i >= Max2(Len(a), Len(b)) THEN result
    ELSE LET a_digit == IF i < Len(a) THEN a[i + 1] ELSE 0
             b_digit == IF i < Len(b) THEN b[i + 1] ELSE BASE - 1
         IN IF a_digit = b_digit
            THEN midpoint_loop(a, b, i + 1, Append(result, a_digit))
            ELSE IF a_digit + 1 = b_digit
            THEN Append(Append(result, a_digit), (BASE - 1) \div 2)
            ELSE Append(result, (a_digit + b_digit) \div 2)

midpoint(a, b) ==
    LET result == midpoint_loop(a, b, 0, <<>>) IN
    FOk(IF Len(result) = 0 THEN <<BASE \div 2>> ELSE result)

between(a, b) ==
    IF ~StrLess(a, b) THEN FErr("CannotGenerate", None)
    ELSE IF ~validate_index(a).ok THEN validate_index(a)
    ELSE IF ~validate_index(b).ok THEN validate_index(b)
    ELSE IF ~to_digits(a).ok THEN to_digits(a)
    ELSE IF ~to_digits(b).ok THEN to_digits(b)
    ELSE LET mid_digits == midpoint(to_digits(a).val, to_digits(b).val) IN
         IF ~mid_digits.ok THEN mid_digits
         ELSE FOk(from_digits(mid_digits.val))

before(index) ==
    IF ~validate_index(index).ok THEN validate_index(index)
    ELSE IF Len(index) = 0 THEN FOk(<<97, 48>>)
    ELSE IF get_previous_char(Last(index)) # None
    THEN FOk(Append(Front(index), get_previous_char(Last(index))))
    ELSE IF ~to_digits(index).ok THEN to_digits(index)
    ELSE LET mid_digits == midpoint(<<0>>, to_digits(index).val) IN
         IF ~mid_digits.ok THEN mid_digits
         ELSE FOk(from_digits(mid_digits.val))

after(index) ==
    IF ~validate_index(index).ok THEN validate_index(index)
    ELSE IF get_next_char(Last(index)) # None
    THEN FOk(Append(Front(index), get_next_char(Last(index))))
    ELSE FOk(Append(index, char_at(1)))

\* format!("{}", n) for n >= 0: the decimal digits of n as byte codes.
RECURSIVE DecimalString(_)
DecimalString(n) ==
    IF n < 10 THEN <<48 + n>>
    ELSE Append(DecimalString(n \div 10), 48 + (n % 10))

\* One iteration of the for loop of generate_sequence on `result`.
generate_sequence_step(result) ==
    LET next == after(Last(result)) IN
    IF next.ok THEN Append(result, next.val)
    ELSE Append(result, <<122>> \o DecimalString(Len(result)))

RECURSIVE generate_sequence_loop(_, _)
generate_sequence_loop(result, k) ==
    IF k <= 0 THEN result
    ELSE LET next == generate_sequence_step(result) IN
         IF Len(next) > Len(result) THEN generate_sequence_loop(next, k - 1) ELSE next

generate_sequence(count) ==
    IF count = 0 THEN <<>>
    ELSE generate_sequence_loop(<<initial>>, count - 1)


(***************************************************************************)
(* core/src/lib.rs: events, errors and the in-memory event store           *)
(***************************************************************************)
\* EventResult<()> and the EventError variants.
EOk == [kind |-> "Ok"]
InvalidVersion(expected, got) == [kind |-> "InvalidVersion", expected |-> expected, got |-> got]
DuplicateEventId(id) == [kind |-> "DuplicateEventId", id |-> id]
InvalidEventType(t) == [kind |-> "InvalidEventType", msg |-> t]
InvalidAggregateId(id) == [kind |-> "InvalidAggregateId", msg |-> id]
ValidationError(msg) == [kind |-> "ValidationError", msg |-> msg]

Event(id, event_type, aggregate_id, payload, timestamp, version) ==
    [id |-> id, event_type |-> event_type, aggregate_id |-> aggregate_id,
     payload |-> payload, timestamp |-> timestamp, version |-> version]

\* InMemoryEventStore::new: no events, an empty version map.
NewStore == [events |-> <<>>, version_map |-> <<>>]

\* HashMap::insert on a map kept as a function on its key set.
MapInsert(m, k, v) == [x \in (DOMAIN m) \cup {k} |-> IF x = k THEN v ELSE m[x]]

get_latest_version_counts_all(s, aggregate_id) == Len(s.events)

get_latest_version(s, aggregate_id) ==
    IF aggregate_id \in DOMAIN s.version_map THEN s.version_map[aggregate_id] ELSE 0

\* Mutant of append_event: the version map is updated before the version check.
append_event_marks_first(s, event) ==
    LET expected_version == get_latest_version(s, event.aggregate_id) + 1 IN
    IF \E i \in 1..Len(s.events) : s.events[i].id = event.id
    THEN [store |-> s, result |-> DuplicateEventId(event.id)]
    ELSE IF event.version # expected_version
    THEN [store |-> [s EXCEPT !.version_map =
                        MapInsert(@, event.aggregate_id, event.version)],
          result |-> InvalidVersion(expected_version, event.version)]
    ELSE [store |-> [events |-> Append(s.events, event),
                     version_map |->
                        MapInsert(s.version_map, event.aggregate_id, event.version)],
          result |-> EOk]

\* Mutant of append_event: an event only has to be newer than the latest one.
append_event_allows_gaps(s, event) ==
    LET expected_version == get_latest_version(s, event.aggregate_id) + 1 IN
    IF \E i \in 1..Len(s.events) : s.events[i].id = event.id
    THEN [store |-> s, result |-> DuplicateEventId(event.id)]
    ELSE IF event.version < expected_version
    THEN [store |-> s, result |-> InvalidVersion(expected_version, event.version)]
    ELSE [store |-> [events |-> Append(s.events, event),
                     version_map |->
                        MapInsert(s.version_map, event.aggregate_id, event.version)],
          result |-> EOk]

\* Mutant of append_event: duplicate ids are looked for in the event's aggregate only.
append_event_dup_per_aggregate(s, event) ==
    LET expected_version == get_latest_version(s, event.aggregate_id) + 1 IN
    IF \E i \in 1..Len(s.events) :
          s.events[i].id = event.id /\ s.events[i].aggregate_id = event.aggregate_id
    THEN [store |-> s, result |-> DuplicateEventId(event.id)]
    ELSE IF event.version # expected_version
    THEN [store |-> s, result |-> InvalidVersion(expected_version, event.version)]
    ELSE [store |-> [events |-> Append(s.events, event),
                     version_map |->
                        MapInsert(s.version_map, event.aggregate_id, event.version)],
          result |-> EOk]

\* append_event: the store after the call and the call's result.
append_event(s, event) ==
    LET current_version == get_latest_version(s, event.aggregate_id)
        expected_version == current_version + 1
    IN
    IF \E i \in 1..Len(s.events) : s.events[i].id = event.id
    THEN [store |-> s, result |-> DuplicateEventId(event.id)]
    ELSE IF event.version # expected_version
    THEN [store |-> s, result |-> InvalidVersion(expected_version, event.version)]
    ELSE [store |-> [events |-> Append(s.events, event),
                     version_map |->
                        MapInsert(s.version_map, event.aggregate_id, event.version)],
          result |-> EOk]

\* Ord on the sort keys, which are tuples of integers: lexicographic.
KeyLess(k1, k2) == StrLessFrom(k1, k2, 1)

\* Vec::sort_by_key is a stable sort: element i goes after every element with a
\* smaller key and after the earlier elements with an equal key.  keys[i] is the
\* key of seq[i].
StableSort(seq, keys) ==
    LET n == Len(seq)
        Rank(i) == 1 + Cardinality({j \in 1..n :
                        \/ KeyLess(keys[j], keys[i])
                        \/ ~KeyLess(keys[i], keys[j]) /\ j < i})
    IN [k \in 1..n |-> seq[CHOOSE i \in 1..n : Rank(i) = k]]

get_events(s, aggregate_id) ==
    LET OfAggregate(e) == e.aggregate_id = aggregate_id
        events == SelectSeq(s.events, OfAggregate)
    IN StableSort(events, [i \in 1..Len(events) |-> <<events[i].version>>])

get_all_events(s) ==
    StableSort(s.events,
               [i \in 1..Len(s.events) |->
                    <<s.events[i].timestamp, s.events[i].version>>])

get_event_count(s) == Len(s.events)

(***************************************************************************)
(* core/src/document.rs: the document materializer and projection          *)
(*                                                                         *)
(* A payload is a JSON object, kept as a function from the keys present to *)
(* JSON values.  Strings are TLA+ strings, except fractional indices,      *)
(* which are byte sequences as in the fractional-index module.             *)
(***************************************************************************)
JStr(s) == [t |-> "str", s |-> s]
JNum(n) == [t |-> "num", n |-> n]
JBool(b) == [t |-> "bool", b |-> b]
JObj(o) == [t |-> "obj", o |-> o]
JNull == [t |-> "null"]

\* Option<T>
OptNone == [some |-> FALSE]
Some(v) == [some |-> TRUE, v |-> v]

\* serde_json::Value::get(key)
Get(payload, key) == IF key \in DOMAIN payload THEN Some(payload[key]) ELSE OptNone

\* .and_then(|v| v.as_str()), .as_u64(), .as_f64(), .as_bool() on an Option<&Value>
as_str(o) == IF o.some /\ o.v.t = "str" THEN Some(o.v.s) ELSE OptNone
as_u64(o) == IF o.some /\ o.v.t = "num" /\ o.v.n >= 0 THEN Some(o.v.n) ELSE OptNone
as_f64(o) == IF o.some /\ o.v.t = "num" THEN Some(o.v.n) ELSE OptNone
as_bool(o) == IF o.some /\ o.v.t = "bool" THEN Some(o.v.b) ELSE OptNone

unwrap_or(o, d) == IF o.some THEN o.v ELSE d

\* DocumentMetadata::default()
DefaultMetadata == "default"

\* The JSON objects that deserialize as DocumentMetadata (authors, tags and custom
\* present); any other value fails to parse.
MetadataObjects == {"default", "meta1", "meta2"}

\* serde_json::from_value::<DocumentMetadata>(v): Some(metadata) or a parse error.
metadata_from_value(v) ==
    IF v.t = "obj" /\ v.o \in MetadataObjects THEN Some(v.o) ELSE OptNone

\* The JSON objects that deserialize as HashMap<String, MediaRepresentation>.
RepresentationObjects == {"reps1"}

representations_from_value(o) ==
    IF o.some /\ o.v.t = "obj" /\ o.v.o \in RepresentationObjects
    THEN Some(o.v.o) ELSE OptNone

MapRemove(m, k) == [x \in (DOMAIN m) \ {k} |-> m[x]]

EmptyMap == <<>>

\* DocumentProjectionState::default()
initial_state ==
    [documents |-> EmptyMap, cells |-> EmptyMap, outputs |-> EmptyMap,
     runtime_sessions |-> EmptyMap, last_processed_timestamp |-> 0]

MOk(st) == [ok |-> TRUE, state |-> st]
MErr(msg) == [ok |-> FALSE, err |-> ValidationError(msg)]

\* "Update document timestamp": if the event's aggregate is a stored document.
touch_document(st, event) ==
    IF event.aggregate_id \in DOMAIN st.documents
    THEN [st EXCEPT !.documents[event.aggregate_id].updated_at = event.timestamp]
    ELSE st

CellTypes == {"code", "markdown", "sql", "ai", "raw"}
ExecutionStates == {"idle", "queued", "running", "completed", "error"}
OutputTypes == {"multimedia_display", "multimedia_result", "terminal", "markdown", "error"}

apply_DocumentCreated(st, event) ==
    LET document ==
            [id |-> event.aggregate_id,
             title |-> unwrap_or(as_str(Get(event.payload, "title")), "Untitled"),
             metadata |-> unwrap_or(
                 metadata_from_value(unwrap_or(Get(event.payload, "metadata"), JNull)),
                 DefaultMetadata),
             created_at |-> event.timestamp,
             updated_at |-> event.timestamp]
    IN MOk([st EXCEPT !.documents = MapInsert(@, event.aggregate_id, document)])

apply_DocumentTitleUpdated(st, event) ==
    LET title == as_str(Get(event.payload, "title")) IN
    IF event.aggregate_id \in DOMAIN st.documents /\ title.some
    THEN MOk([st EXCEPT !.documents[event.aggregate_id].title = title.v,
                        !.documents[event.aggregate_id].updated_at = event.timestamp])
    ELSE MOk(st)

apply_DocumentMetadataUpdated(st, event) ==
    LET metadata == Get(event.payload, "metadata") IN
    IF event.aggregate_id \in DOMAIN st.documents /\ metadata.some
    THEN MOk([st EXCEPT
            !.documents[event.aggregate_id].metadata =
                unwrap_or(metadata_from_value(metadata.v), @),
            !.documents[event.aggregate_id].updated_at = event.timestamp])
    ELSE MOk(st)

apply_CellCreated(st, event) ==
    LET cell_data == event.payload
        cell_id == as_str(Get(cell_data, "cell_id"))
        cell_type_str == as_str(Get(cell_data, "cell_type"))
    IN
    IF ~cell_id.some THEN MErr("Missing cell_id")
    ELSE IF ~cell_type_str.some THEN MErr("Missing cell_type")
    ELSE IF cell_type_str.v \notin CellTypes THEN MErr("Invalid cell_type")
    ELSE LET cell ==
                [id |-> cell_id.v,
                 cell_type |-> cell_type_str.v,
                 source |-> unwrap_or(as_str(Get(cell_data, "source")), ""),
                 fractional_index |-> as_str(Get(cell_data, "fractional_index")),
                 execution_count |-> as_u64(Get(cell_data, "execution_count")),
                 execution_state |-> "idle",
                 assigned_runtime_session |-> OptNone,
                 last_execution_duration_ms |-> OptNone,
                 sql_connection_id |-> as_str(Get(cell_data, "sql_connection_id")),
                 sql_result_variable |-> as_str(Get(cell_data, "sql_result_variable")),
                 ai_provider |-> as_str(Get(cell_data, "ai_provider")),
                 ai_model |-> as_str(Get(cell_data, "ai_model")),
                 ai_settings |-> Get(cell_data, "ai_settings"),
                 source_visible |->
                     unwrap_or(as_bool(Get(cell_data, "source_visible")), TRUE),
                 output_visible |->
                     unwrap_or(as_bool(Get(cell_data, "output_visible")), TRUE),
                 ai_context_visible |->
                     unwrap_or(as_bool(Get(cell_data, "ai_context_visible")), TRUE),
                 created_by |-> unwrap_or(as_str(Get(cell_data, "created_by")), "system"),
                 document_id |-> event.aggregate_id,
                 created_at |-> event.timestamp,
                 updated_at |-> event.timestamp]
         IN MOk(touch_document([st EXCEPT !.cells = MapInsert(@, cell_id.v, cell)],
                               event))

apply_CellSourceUpdated(st, event) ==
    LET cell_id == as_str(Get(event.payload, "cell_id"))
        source == as_str(Get(event.payload, "source"))
    IN
    IF ~cell_id.some THEN MErr("Missing cell_id")
    ELSE IF cell_id.v \in DOMAIN st.cells
    THEN MOk(touch_document(
            [st EXCEPT !.cells[cell_id.v].source = IF source.some THEN source.v ELSE @,
                       !.cells[cell_id.v].updated_at = event.timestamp],
            event))
    ELSE MOk(st)

apply_CellExecutionStateChanged_resets_unknown(st, event) ==
    LET cell_id == as_str(Get(event.payload, "cell_id"))
        state_str == as_str(Get(event.payload, "execution_state"))
    IN
    IF ~cell_id.some THEN MErr("Missing cell_id")
    ELSE IF cell_id.v \in DOMAIN st.cells
    THEN MOk([st EXCEPT
            !.cells[cell_id.v].execution_state =
                IF state_str.some
                THEN IF state_str.v \in ExecutionStates THEN state_str.v ELSE "idle"
                ELSE @,
            !.cells[cell_id.v].updated_at = event.timestamp])
    ELSE MOk(st)

apply_CellExecutionStateChanged(st, event) ==
    LET cell_id == as_str(Get(event.payload, "cell_id"))
        state_str == as_str(Get(event.payload, "execution_state"))
        runtime_session == as_str(Get(event.payload, "assigned_runtime_session"))
        duration == as_u64(Get(event.payload, "execution_duration_ms"))
    IN
    IF ~cell_id.some THEN MErr("Missing cell_id")
    ELSE IF cell_id.v \in DOMAIN st.cells
    THEN MOk([st EXCEPT
            !.cells[cell_id.v].execution_state =
                IF state_str.some /\ state_str.v \in ExecutionStates
                THEN state_str.v ELSE @,
            !.cells[cell_id.v].assigned_runtime_session =
                IF runtime_session.some THEN Some(runtime_session.v) ELSE @,
            !.cells[cell_id.v].last_execution_duration_ms =
                IF duration.some THEN Some(duration.v) ELSE @,
            !.cells[cell_id.v].updated_at = event.timestamp])
    ELSE MOk(st)

apply_CellOutputCreated(st, event) ==
    LET output_data == event.payload
        output_id == as_str(Get(output_data, "output_id"))
        cell_id == as_str(Get(output_data, "cell_id"))
        output_type_str == as_str(Get(output_data, "output_type"))
    IN
    IF ~output_id.some THEN MErr("Missing output_id")
    ELSE IF ~cell_id.some THEN MErr("Missing cell_id")
    ELSE IF ~output_type_str.some THEN MErr("Missing output_type")
    ELSE IF output_type_str.v \notin OutputTypes THEN MErr("Invalid output_type")
    ELSE LET output ==
                [id |-> output_id.v,
                 cell_id |-> cell_id.v,
                 output_type |-> output_type_str.v,
                 position |-> unwrap_or(as_f64(Get(output_data, "position")), 0),
                 stream_name |-> as_str(Get(output_data, "stream_name")),
                 execution_count |-> as_u64(Get(output_data, "execution_count")),
                 display_id |-> as_str(Get(output_data, "display_id")),
                 data |-> as_str(Get(output_data, "data")),
                 artifact_id |-> as_str(Get(output_data, "artifact_id")),
                 mime_type |-> as_str(Get(output_data, "mime_type")),
                 metadata |-> Get(output_data, "metadata"),
                 representations |->
                     representations_from_value(Get(output_data, "representations")),
                 created_at |-> event.timestamp]
         IN MOk([st EXCEPT !.outputs = MapInsert(@, output_id.v, output)])

apply_CellMoved_keeps_index(st, event) ==
    LET cell_id == as_str(Get(event.payload, "cell_id"))
        new_fractional_index == as_str(Get(event.payload, "fractional_index"))
    IN
    IF ~cell_id.some THEN MErr("Missing cell_id")
    ELSE IF ~new_fractional_index.some THEN MErr("Missing fractional_index")
    ELSE IF cell_id.v \in DOMAIN st.cells
    THEN MOk(touch_document(
            [st EXCEPT !.cells[cell_id.v].updated_at = event.timestamp], event))
    ELSE MOk(st)

apply_CellMoved(st, event) ==
    LET cell_id == as_str(Get(event.payload, "cell_id"))
        new_fractional_index == as_str(Get(event.payload, "fractional_index"))
    IN
    IF ~cell_id.some THEN MErr("Missing cell_id")
    ELSE IF ~new_fractional_index.some THEN MErr("Missing fractional_index")
    ELSE IF cell_id.v \in DOMAIN st.cells
    THEN MOk(touch_document(
            [st EXCEPT !.cells[cell_id.v].fractional_index = Some(new_fractional_index.v),
                       !.cells[cell_id.v].updated_at = event.timestamp],
            event))
    ELSE MOk(st)

apply_CellDeleted_keeps_outputs(st, event) ==
    LET cell_id == as_str(Get(event.payload, "cell_id")) IN
    IF ~cell_id.some THEN MErr("Missing cell_id")
    ELSE MOk(touch_document([st EXCEPT !.cells = MapRemove(@, cell_id.v)], event))

apply_CellDeleted(st, event) ==
    LET cell_id == as_str(Get(event.payload, "cell_id")) IN
    IF ~cell_id.some THEN MErr("Missing cell_id")
    ELSE MOk(touch_document(
            [st EXCEPT
                !.cells = MapRemove(@, cell_id.v),
                !.outputs = [o \in {x \in DOMAIN @ : @[x].cell_id # cell_id.v} |-> @[o]]],
            event))

apply_DocumentDeleted_cascades(st, event) ==
    MOk([st EXCEPT
            !.documents = MapRemove(@, event.aggregate_id),
            !.cells = [k \in {x \in DOMAIN @ : @[x].document_id # event.aggregate_id}
                          |-> @[k]]])

apply_DocumentDeleted(st, event) ==
    MOk([st EXCEPT !.documents = MapRemove(@, event.aggregate_id)])

\* DocumentMaterializer::apply_event: Ok(new state) or Err(ValidationError).
apply_event(state, event) ==
    LET new_state == [state EXCEPT !.last_processed_timestamp = event.timestamp] IN
    CASE event.event_type = "DocumentCreated" -> apply_DocumentCreated(new_state, event)
      [] event.event_type = "DocumentTitleUpdated" ->
            apply_DocumentTitleUpdated(new_state, event)
      [] event.event_type = "DocumentMetadataUpdated" ->
            apply_DocumentMetadataUpdated(new_state, event)
      [] event.event_type = "CellCreated" -> apply_CellCreated(new_state, event)
      [] event.event_type = "CellSourceUpdated" -> apply_CellSourceUpdated(new_state, event)
      [] event.event_type = "CellExecutionStateChanged" ->
            apply_CellExecutionStateChanged(new_state, event)
      [] event.event_type = "CellOutputCreated" -> apply_CellOutputCreated(new_state, event)
      [] event.event_type = "CellMoved" -> apply_CellMoved(new_state, event)
      [] event.event_type = "CellDeleted" -> apply_CellDeleted(new_state, event)
      [] event.event_type = "DocumentDeleted" -> apply_DocumentDeleted(new_state, event)
      [] OTHER -> MOk(new_state)

HandledEventTypes ==
    {"DocumentCreated", "DocumentTitleUpdated", "DocumentMetadataUpdated", "CellCreated",
     "CellSourceUpdated", "CellExecutionStateChanged", "CellOutputCreated", "CellMoved",
     "CellDeleted", "DocumentDeleted"}

handles_every_event_type(event_type) == TRUE

handles_event_type(event_type) == event_type \in HandledEventTypes

\* DocumentProjection::new
NewProjection == [state |-> initial_state]

RECURSIVE rebuild_loop_skips_failures(_, _, _)
rebuild_loop_skips_failures(state, events, i) ==
    IF i > Len(events) THEN MOk(state)
    ELSE IF handles_event_type(events[i].event_type)
    THEN LET r == apply_event(state, events[i]) IN
         IF r.ok THEN rebuild_loop_skips_failures(r.state, events, i + 1)
         ELSE rebuild_loop_skips_failures(state, events, i + 1)
    ELSE rebuild_loop_skips_failures(state, events, i + 1)

\* The for loop of rebuild_from_events from events[i] on, with `state` so far.
RECURSIVE rebuild_loop(_, _, _)
rebuild_loop(state, events, i) ==
    IF i > Len(events) THEN MOk(state)
    ELSE IF handles_event_type(events[i].event_type)
    THEN LET r == apply_event(state, events[i]) IN
         IF r.ok THEN rebuild_loop(r.state, events, i + 1)
         ELSE MErr("Materialization failed")
    ELSE rebuild_loop(state, events, i + 1)

rebuild_resets_first(projection, events) ==
    LET r == rebuild_loop(initial_state, events, 1) IN
    IF r.ok THEN [projection |-> [projection EXCEPT !.state = r.state], result |-> EOk]
    ELSE [projection |-> [projection EXCEPT !.state = initial_state], result |-> r.err]

\* rebuild_from_events: the projection after the call and the call's result.
rebuild_from_events(projection, events) ==
    LET r == rebuild_loop(initial_state, events, 1) IN
    IF r.ok THEN [projection |-> [projection EXCEPT !.state = r.state], result |-> EOk]
    ELSE [projection |-> projection, result |-> r.err]

RECURSIVE apply_new_loop_ungated(_, _, _)
apply_new_loop_ungated(projection, events, i) ==
    IF i > Len(events) THEN [projection |-> projection, result |-> EOk]
    ELSE IF handles_event_type(events[i].event_type)
    THEN LET r == apply_event(projection.state, events[i]) IN
         IF r.ok
         THEN apply_new_loop_ungated([projection EXCEPT !.state = r.state], events, i + 1)
         ELSE [projection |-> projection,
               result |-> ValidationError("Materialization failed")]
    ELSE apply_new_loop_ungated(projection, events, i + 1)

RECURSIVE apply_new_loop_gate_inclusive(_, _, _)
apply_new_loop_gate_inclusive(projection, events, i) ==
    IF i > Len(events) THEN [projection |-> projection, result |-> EOk]
    ELSE IF /\ events[i].timestamp >= projection.state.last_processed_timestamp
            /\ handles_event_type(events[i].event_type)
    THEN LET r == apply_event(projection.state, events[i]) IN
         IF r.ok
         THEN apply_new_loop_gate_inclusive([projection EXCEPT !.state = r.state],
                                            events, i + 1)
         ELSE [projection |-> projection,
               result |-> ValidationError("Materialization failed")]
    ELSE apply_new_loop_gate_inclusive(projection, events, i + 1)

\* The for loop of apply_new_events from events[i] on; self.state is assigned
\* after each event that is applied.
RECURSIVE apply_new_loop(_, _, _)
apply_new_loop(projection, events, i) ==
    IF i > Len(events) THEN [projection |-> projection, result |-> EOk]
    ELSE IF /\ events[i].timestamp > projection.state.last_processed_timestamp
            /\ handles_event_type(events[i].event_type)
    THEN LET r == apply_event(projection.state, events[i]) IN
         IF r.ok
         THEN apply_new_loop([projection EXCEPT !.state = r.state], events, i + 1)
         ELSE [projection |-> projection,
               result |-> ValidationError("Materialization failed")]
    ELSE apply_new_loop(projection, events, i + 1)

apply_new_events(projection, events) == apply_new_loop(projection, events, 1)

last_processed_timestamp(projection) == projection.state.last_processed_timestamp

get_state(projection) == projection.state

\* The closure given to sort_by in get_document_cells: -1 for Less, 0 for
\* Equal, 1 for Greater.
cell_order(a, b) ==
    CASE a.fractional_index.some /\ b.fractional_index.some ->
            IF a.fractional_index.v = b.fractional_index.v THEN 0
            ELSE IF StrLess(a.fractional_index.v, b.fractional_index.v) THEN -1 ELSE 1
      [] a.fractional_index.some /\ ~b.fractional_index.some -> -1
      [] ~a.fractional_index.some /\ b.fractional_index.some -> 1
      [] OTHER -> IF a.created_at < b.created_at THEN -1
                  ELSE IF a.created_at = b.created_at THEN 0 ELSE 1

\* slice::sort_by is a stable sort: element i goes after every element that
\* compares Less and after the earlier elements that compare Equal.
sort_by_cell_order(seq) ==
    LET n == Len(seq)
        Rank(i) == 1 + Cardinality({j \in 1..n :
                        \/ cell_order(seq[j], seq[i]) < 0
                        \/ cell_order(seq[j], seq[i]) = 0 /\ j < i})
    IN [k \in 1..n |-> seq[CHOOSE i \in 1..n : Rank(i) = k]]

\* The orders in which HashMap::values may yield the cells: every enumeration
\* of the keys without repetition.
IterationOrders(cells) ==
    {f \in [1..Cardinality(DOMAIN cells) -> DOMAIN cells] :
        \A i, j \in DOMAIN f : f[i] = f[j] => i = j}

\* get_document_cells, with self.cells.values() yielding the cells in the
\* order `values`.
get_document_cells(state, document_id, values) ==
    LET all == [i \in DOMAIN values |-> state.cells[values[i]]]
        OfDocument(cell) == cell.document_id = document_id
    IN sort_by_cell_order(SelectSeq(all, OfDocument))

(***************************************************************************)
(* The HTTP/WebSocket server: AppState, ConnectionManager and the          *)
(* per-connection broadcast channel.                                       *)
(***************************************************************************)

\* tokio::sync::RwLock: the write half is granted when nobody holds the lock.
\* A lock is kept as its write holder; every read guard of the server is taken
\* and dropped without a suspension point in between.
NoTask == "none"

CanWrite_ignores_holder(holder) == TRUE

CanWrite(holder) == holder = NoTask

CanRead(holder) == holder = NoTask

\* broadcast::channel::<WsMessage>(100)
ChannelCapacity == 100

\* (tx, rx): the queue of values not yet received, whether the receiver still
\* exists, and whether a value was overwritten before the receiver took it.
NewChannel == [queue |-> <<>>, rx |-> TRUE, lagged |-> FALSE]

\* The Receiver is dropped: what is queued can no longer be received.
drop_rx(ch) == [queue |-> <<>>, rx |-> FALSE, lagged |-> FALSE]

chan_send_never_lags(ch, msg) ==
    IF ~ch.rx
    THEN [ok |-> FALSE, ch |-> ch]
    ELSE IF Len(ch.queue) >= ChannelCapacity
         THEN [ok |-> TRUE, ch |-> [ch EXCEPT !.queue = Append(Tail(@), msg)]]
         ELSE [ok |-> TRUE, ch |-> [ch EXCEPT !.queue = Append(@, msg)]]

\* broadcast::Sender::send: fails only when no receiver exists; a full buffer
\* overwrites its oldest value and the receiver lags.
chan_send(ch, msg) ==
    IF ~ch.rx
    THEN [ok |-> FALSE, ch |-> ch]
    ELSE IF Len(ch.queue) >= ChannelCapacity
         THEN [ok |-> TRUE,
               ch |-> [ch EXCEPT !.queue = Append(Tail(@), msg), !.lagged = TRUE]]
         ELSE [ok |-> TRUE, ch |-> [ch EXCEPT !.queue = Append(@, msg)]]

\* WsMessage::Event and WsMessage::Subscribed
WsEvent(store_id, event) == [type |-> "event", store_id |-> store_id, event |-> event]

WsSubscribed(store_id, connection_id) ==
    [type |-> "subscribed", store_id |-> store_id, connection_id |-> connection_id]

\* ConnectionManager::subscribe on the map store_id -> Vec<Connection>; a
\* Connection is kept as its id, its Sender is the channel of that connection.
subscribe(cs, store_id, connection) ==
    IF store_id \in DOMAIN cs
    THEN [cs EXCEPT ![store_id] = Append(@, connection)]
    ELSE MapInsert(cs, store_id, <<connection>>)

unsubscribe_whole_store(cs, store_id, connection_id) == MapRemove(cs, store_id)

unsubscribe(cs, store_id, connection_id) ==
    IF store_id \in DOMAIN cs
    THEN LET Other(k) == k # connection_id
             kept == SelectSeq(cs[store_id], Other)
         IN IF kept = <<>> THEN MapRemove(cs, store_id)
                           ELSE [cs EXCEPT ![store_id] = kept]
    ELSE cs

disconnect(cs, connection_id) ==
    LET Other(k) == k # connection_id
        stores_to_remove == {s \in DOMAIN cs : SelectSeq(cs[s], Other) = <<>>}
    IN [s \in (DOMAIN cs) \ stores_to_remove |-> SelectSeq(cs[s], Other)]

\* Whether the Sender of a connection still exists: the only one is the one
\* stored in the map.
IsSubscribed(cs, store_id, connection_id) ==
    /\ store_id \in DOMAIN cs
    /\ \E i \in 1..Len(cs[store_id]) : cs[store_id][i] = connection_id

SenderExists(cs, connection_id) ==
    \E s \in DOMAIN cs : IsSubscribed(cs, s, connection_id)

\* The loop of broadcast_event over the connections of one store, made while
\* the read guard is held: cn is the record of every connection.
RECURSIVE broadcast_loop(_, _, _, _, _)
broadcast_loop(store_connections, i, cn, message, disconnected) ==
    IF i > Len(store_connections)
    THEN [conn |-> cn, disconnected |-> disconnected]
    ELSE LET c == store_connections[i]
             sent == chan_send(cn[c].ch, message)
         IN IF sent.ok
            THEN broadcast_loop(store_connections, i + 1,
                                [cn EXCEPT ![c].ch = sent.ch], message, disconnected)
            ELSE broadcast_loop(store_connections, i + 1, cn, message,
                                Append(disconnected, c))

broadcast_event_skips_first(cs, cn, store_id, event) ==
    IF store_id \in DOMAIN cs
    THEN broadcast_loop(cs[store_id], 2, cn, WsEvent(store_id, event), <<>>)
    ELSE [conn |-> cn, disconnected |-> <<>>]

broadcast_event_send(cs, cn, store_id, event) ==
    IF store_id \in DOMAIN cs
    THEN broadcast_loop(cs[store_id], 1, cn, WsEvent(store_id, event), <<>>)
    ELSE [conn |-> cn, disconnected |-> <<>>]

\* str::trim().is_empty() on the strings the requests carry.
trim_is_empty(s) == s \in {"", " "}

\* EventBuilder::build; id and timestamp are what generate_event_id and
\* current_timestamp read from the clock.
build(event_type, aggregate_id, payload, version, id, timestamp) ==
    IF trim_is_empty(event_type)
    THEN [ok |-> FALSE, err |-> InvalidEventType(event_type)]
    ELSE IF trim_is_empty(aggregate_id)
    THEN [ok |-> FALSE, err |-> InvalidAggregateId(aggregate_id)]
    ELSE IF version < 1
    THEN [ok |-> FALSE, err |-> InvalidVersion(1, version)]
    ELSE [ok |-> TRUE,
          event |-> Event(id, event_type, aggregate_id, payload, timestamp, version)]

event_error_to_response(err) ==
    [status |-> IF err.kind \in {"InvalidVersion", "DuplicateEventId"} THEN 409 ELSE 400,
     code |-> CASE err.kind = "InvalidVersion" -> "VERSION_CONFLICT"
                [] err.kind = "DuplicateEventId" -> "DUPLICATE_EVENT"
                [] OTHER -> "VALIDATION_ERROR",
     error |-> err]

SubmitEventResponse(event_id, version) ==
    [status |-> 200, event_id |-> event_id, version |-> version]

NoEvent == Event(0, "", "", <<>>, 0, 0)

NoResponse == [status |-> 0]

\* apply_new_events has not been called by the request.
NotApplied == [kind |-> "none"]

ensure_store_exists_inserts_nothing(m, store_id, fresh) == m

\* ensure_store_exists, once both write guards are held.
ensure_store_exists(m, store_id, fresh) ==
    IF store_id \in DOMAIN m THEN m ELSE MapInsert(m, store_id, fresh)

submit_event_ignores_append_error(event_store, projection, store_id, body, id, timestamp) ==
    LET built == build(body.event_type, store_id, body.payload,
                       get_latest_version(event_store, store_id) + 1, id, timestamp)
    IN IF ~built.ok
       THEN [ok |-> FALSE, event_store |-> event_store, projection |-> projection,
             event |-> NoEvent, applied |-> NotApplied,
             response |-> event_error_to_response(built.err)]
       ELSE [ok |-> TRUE, event_store |-> append_event(event_store, built.event).store,
             projection |-> apply_new_events(projection, <<built.event>>).projection,
             event |-> built.event,
             applied |-> apply_new_events(projection, <<built.event>>).result,
             response |-> NoResponse]

submit_event_skips_projection(event_store, projection, store_id, body, id, timestamp) ==
    LET built == build(body.event_type, store_id, body.payload,
                       get_latest_version(event_store, store_id) + 1, id, timestamp)
        appended == append_event(event_store, built.event)
    IN IF ~built.ok
       THEN [ok |-> FALSE, event_store |-> event_store, projection |-> projection,
             event |-> NoEvent, applied |-> NotApplied,
             response |-> event_error_to_response(built.err)]
       ELSE IF appended.result.kind # "Ok"
       THEN [ok |-> FALSE, event_store |-> event_store, projection |-> projection,
             event |-> NoEvent, applied |-> NotApplied,
             response |-> event_error_to_response(appended.result)]
       ELSE [ok |-> TRUE, event_store |-> appended.store, projection |-> projection,
             event |-> built.event, applied |-> NotApplied, response |-> NoResponse]

submit_event_rolls_back_append(event_store, projection, store_id, body, id, timestamp) ==
    LET current_version == get_latest_version(event_store, store_id)
        next_version == current_version + 1
        built == build(body.event_type, store_id, body.payload, next_version, id, timestamp)
        appended == append_event(event_store, built.event)
        applied == apply_new_events(projection, <<built.event>>)
    IN IF ~built.ok
       THEN [ok |-> FALSE, event_store |-> event_store, projection |-> projection,
             event |-> NoEvent, applied |-> NotApplied,
             response |-> event_error_to_response(built.err)]
       ELSE IF appended.result.kind # "Ok"
       THEN [ok |-> FALSE, event_store |-> event_store, projection |-> projection,
             event |-> NoEvent, applied |-> NotApplied,
             response |-> event_error_to_response(appended.result)]
       ELSE [ok |-> TRUE,
             event_store |-> IF applied.result = EOk THEN appended.store ELSE event_store,
             projection |-> applied.projection,
             event |-> built.event, applied |-> applied.result,
             response |-> NoResponse]

submit_event_projects_first(event_store, projection, store_id, body, id, timestamp) ==
    LET current_version == get_latest_version(event_store, store_id)
        next_version == current_version + 1
        built == build(body.event_type, store_id, body.payload, next_version, id, timestamp)
        appended == append_event(event_store, built.event)
        applied == apply_new_events(projection, <<built.event>>)
    IN IF ~built.ok
       THEN [ok |-> FALSE, event_store |-> event_store, projection |-> projection,
             event |-> NoEvent, applied |-> NotApplied,
             response |-> event_error_to_response(built.err)]
       ELSE IF appended.result.kind # "Ok"
       THEN [ok |-> FALSE, event_store |-> event_store,
             projection |-> applied.projection,
             event |-> NoEvent, applied |-> NotApplied,
             response |-> event_error_to_response(appended.result)]
       ELSE [ok |-> TRUE, event_store |-> appended.store,
             projection |-> applied.projection,
             event |-> built.event, applied |-> applied.result,
             response |-> NoResponse]

submit_event_reuses_version(event_store, projection, store_id, body, id, timestamp) ==
    LET current_version == get_latest_version(event_store, store_id)
        built == build(body.event_type, store_id, body.payload, current_version,
                       id, timestamp)
        appended == append_event(event_store, built.event)
        applied == apply_new_events(projection, <<built.event>>)
    IN IF ~built.ok
       THEN [ok |-> FALSE, event_store |-> event_store, projection |-> projection,
             event |-> NoEvent, applied |-> NotApplied,
             response |-> event_error_to_response(built.err)]
       ELSE IF appended.result.kind # "Ok"
       THEN [ok |-> FALSE, event_store |-> event_store, projection |-> projection,
             event |-> NoEvent, applied |-> NotApplied,
             response |-> event_error_to_response(appended.result)]
       ELSE [ok |-> TRUE, event_store |-> appended.store,
             projection |-> applied.projection,
             event |-> built.event, applied |-> applied.result,
             response |-> NoResponse]

\* submit_event from the moment both write guards are held up to the call of
\* broadcast_event: read the latest version, build, append, project.
submit_event_locked(event_store, projection, store_id, body, id, timestamp) ==
    LET current_version == get_latest_version(event_store, store_id)
        next_version == current_version + 1
        built == build(body.event_type, store_id, body.payload, next_version, id, timestamp)
        appended == append_event(event_store, built.event)
        applied == apply_new_events(projection, <<built.event>>)
    IN IF ~built.ok
       THEN [ok |-> FALSE, event_store |-> event_store, projection |-> projection,
             event |-> NoEvent, applied |-> NotApplied,
             response |-> event_error_to_response(built.err)]
       ELSE IF appended.result.kind # "Ok"
       THEN [ok |-> FALSE, event_store |-> event_store, projection |-> projection,
             event |-> NoEvent, applied |-> NotApplied,
             response |-> event_error_to_response(appended.result)]
       ELSE [ok |-> TRUE, event_store |-> appended.store,
             projection |-> applied.projection,
             event |-> built.event, applied |-> applied.result,
             response |-> NoResponse]

\* Iterator::skip(offset).take(limit)
skip_take(events, offset, limit) ==
    SubSeq(events, offset + 1,
           IF offset + limit < Len(events) THEN offset + limit ELSE Len(events))

\* get_events (the handler) once the read guard is held.
get_events_read(event_store, store_id, query) ==
    LET events == get_events(event_store, store_id)
        Since(e) == e.timestamp > query.since_timestamp.v
        retained == IF query.since_timestamp.some THEN SelectSeq(events, Since) ELSE events
        page == IF query.limit.some /\ query.offset.some
                THEN skip_take(retained, query.offset.v, query.limit.v)
                ELSE retained
    IN [status |-> 200, events |-> page, total_count |-> Len(retained),
        store_id |-> store_id]

\* get_store_info once the read guard is held.
get_store_info_read(event_store, store_id) ==
    LET events == get_events(event_store, store_id)
    IN [status |-> 200, store_id |-> store_id, event_count |-> Len(events),
        latest_version |-> get_latest_version(event_store, store_id),
        first_event_timestamp |->
            IF events = <<>> THEN OptNone ELSE Some(events[1].timestamp),
        last_event_timestamp |->
            IF events = <<>> THEN OptNone ELSE Some(events[Len(events)].timestamp)]

\* list_stores once the read guard is held: the keys of the map, whose order in
\* the returned Vec is the HashMap's and is not kept here.
list_stores_read(m) == [status |-> 200, store_ids |-> DOMAIN m]

GetEventsQuery(since_timestamp, limit, offset) ==
    [since_timestamp |-> since_timestamp, limit |-> limit, offset |-> offset]

\* The HTTP request tasks, the WebSocket connections and the store ids of the
\* URLs.
Tasks == {"r1", "r2"}

Conns == {"c1", "c2"}

Stores == {"x", "y"}

\* The store ids a POST may name: the path segment can also be blank (%20).
PostStores == Stores \cup {" "}

\* A connection before its upgrade: handle_socket has not started.
NewConn ==
    [pc |-> "new", store |-> "", ch |-> NewChannel, socket |-> <<>>]

NoQuery == GetEventsQuery(OptNone, OptNone, OptNone)

\* A request task with no request in hand.
IdleReq ==
    [kind |-> "none", pc |-> "idle", store |-> "",
     body |-> [event_type |-> "", payload |-> <<>>], query |-> NoQuery,
     event |-> NoEvent, applied |-> NotApplied, disconnected |-> <<>>,
     response |-> NoResponse, seen |-> {}, inst |-> 0]

NoLocks == [stores |-> NoTask, projections |-> NoTask]

\* AppState::new() and ConnectionManager::new()
ServerIdle ==
    /\ stores = EmptyMap
    /\ projections = EmptyMap
    /\ wlock = NoLocks
    /\ connections = EmptyMap
    /\ conn = [c \in Conns |-> NewConn]
    /\ req = [r \in Tasks |-> IdleReq]
    /\ hist = <<>>

(***************************************************************************)
(* Harness for the fractional-index functions: Init draws a call and its   *)
(* arguments, the actions apply the function.                              *)
(***************************************************************************)
MaxLen == 2        \* longest argument string drawn
MaxCount == 64     \* largest count given to generate_sequence
MaxInserts == 2    \* insertions made into one ordered list

\* '0' '1' 'a' 'b' 'z' of the alphabet, and '@', which is outside it.
SampleChars == {48, 49, 97, 98, 122, 64}

SampleStrings == UNION {[1..k -> SampleChars] : k \in 0..MaxLen}

IsValidIndex(s) == Len(s) > 0 /\ \A i \in 1..Len(s) : \E j \in 1..BASE : CHARS[j] = s[i]

NoResult == [ok |-> FALSE, val |-> <<>>, err |-> "not called", ch |-> None]

FracCall(op, a, b) ==
    [op |-> op, a |-> a, b |-> b, count |-> 0, xs |-> <<>>, done |-> FALSE,
     out |-> NoResult]

FracDraw ==
    \/ \E a \in SampleStrings, b \in SampleStrings : frac = FracCall("between", a, b)
    \/ \E a \in SampleStrings : frac = FracCall("before", a, <<>>)
    \/ \E a \in SampleStrings : frac = FracCall("after", a, <<>>)
    \/ frac = FracCall("generate_sequence", <<>>, <<>>)
    \/ \E a \in SampleStrings, b \in SampleStrings :
          /\ IsValidIndex(a) /\ IsValidIndex(b) /\ StrLess(a, b)
          /\ frac = [FracCall("insert", a, b) EXCEPT !.xs = <<a, b>>]

FracIdle == FracCall("none", <<>>, <<>>)

NoCall == [event |-> Event(0, "", "", <<>>, 0, 0), result |-> [kind |-> "none"]]

NoRebuild == [called |-> FALSE, projection |-> NewProjection, result |-> EOk, n |-> 0]

StoreIdle == store = NewStore /\ call = NoCall

ProjIdle == inc = NewProjection /\ fed = 0 /\ reb = NoRebuild

\* No event applied yet: the materializer's initial state.
NoApply ==
    [state |-> initial_state, before |-> initial_state,
     event |-> Event(0, "", "", <<>>, 0, 0), result |-> [kind |-> "none"],
     n |-> 0, seeded |-> 0, created |-> {}, extant |-> {}]

MatIdle == mat = NoApply

\* get_document_cells not called yet, no index assigned to any cell.
NoListing ==
    [called |-> FALSE, document_id |-> "", values |-> <<>>, cells |-> <<>>,
     assigned |-> <<>>]

ListingIdle == listing = NoListing

\* No call made on the client yet.
NoClientCall == [op |-> "none"]

\* EventBookClient::new(server_url)
NewClient ==
    [local_store |-> NewStore, document_projection |-> NewProjection,
     last |-> NoClientCall, sent |-> <<>>, posted |-> <<>>]

ClientIdle == client = NewClient

FracInit ==
    /\ FracDraw
    /\ StoreIdle
    /\ ProjIdle
    /\ MatIdle
    /\ ListingIdle
    /\ ClientIdle
    /\ ServerIdle

CallBetween ==
    /\ frac.op = "between" /\ ~frac.done
    /\ frac' = [frac EXCEPT !.done = TRUE, !.out = between(frac.a, frac.b)]
    /\ UNCHANGED notfrac

CallBefore ==
    /\ frac.op = "before" /\ ~frac.done
    /\ frac' = [frac EXCEPT !.done = TRUE, !.out = before(frac.a)]
    /\ UNCHANGED notfrac

CallAfter ==
    /\ frac.op = "after" /\ ~frac.done
    /\ frac' = [frac EXCEPT !.done = TRUE, !.out = after(frac.a)]
    /\ UNCHANGED notfrac

CallGenerateSequence ==
    /\ frac.op = "generate_sequence" /\ ~frac.done
    /\ \E count \in 0..MaxCount :
          frac' = [frac EXCEPT !.done = TRUE, !.count = count,
                               !.xs = generate_sequence(count)]
    /\ UNCHANGED notfrac

\* test_complex_between, at any gap: insert between(xs[i], xs[i+1]) after xs[i].
InsertBetween ==
    /\ frac.op = "insert" /\ frac.count < MaxInserts
    /\ \E i \in 1..(Len(frac.xs) - 1) :
          LET mid == between(frac.xs[i], frac.xs[i + 1]) IN
          /\ mid.ok
          /\ frac' = [frac EXCEPT
                 !.count = @ + 1, !.done = TRUE, !.out = mid,
                 !.a = frac.xs[i], !.b = frac.xs[i + 1],
                 !.xs = SubSeq(@, 1, i) \o <<mid.val>> \o SubSeq(@, i + 1, Len(@))]
    /\ UNCHANGED notfrac

FracNext ==
    \/ CallBetween
    \/ CallBefore
    \/ CallAfter
    \/ CallGenerateSequence
    \/ InsertBetween

SpecFrac == FracInit /\ [][FracNext]_vars

----
\* C6: for valid a < b, between(a, b) is a valid index strictly between them,
\* and a strictly ordered list stays strictly ordered when between(xs[i], xs[i+1])
\* is inserted between two neighbours.
C6_BetweenStrictlyBetween ==
    /\ (frac.op = "between" /\ frac.done /\ IsValidIndex(frac.a) /\ IsValidIndex(frac.b)
        /\ StrLess(frac.a, frac.b))
          => /\ frac.out.ok
             /\ StrLess(frac.a, frac.out.val)
             /\ StrLess(frac.out.val, frac.b)
             /\ validate_index(frac.out.val).ok
    /\ frac.op = "insert" => is_valid_order(frac.xs)

\* C7: for every valid index x, before(x) is a valid index strictly below x.
C7_BeforeStrictlyLess ==
    (frac.op = "before" /\ frac.done /\ IsValidIndex(frac.a))
        => /\ frac.out.ok
           /\ validate_index(frac.out.val).ok
           /\ StrLess(frac.out.val, frac.a)

\* C8: for every valid index x, after(x) is a valid index strictly above x: the
\* last character incremented, or one character appended when the last is 'z';
\* generate_sequence(n) is n strictly increasing valid indices starting at "a0".
C8_AfterStrictlyGreater ==
    /\ (frac.op = "after" /\ frac.done /\ IsValidIndex(frac.a))
          => /\ frac.out.ok
             /\ IsValidIndex(frac.out.val)
             /\ StrLess(frac.a, frac.out.val)
             /\ IF Last(frac.a) = 122
                THEN /\ Len(frac.out.val) = Len(frac.a) + 1
                     /\ SubSeq(frac.out.val, 1, Len(frac.a)) = frac.a
                ELSE /\ Len(frac.out.val) = Len(frac.a)
                     /\ Front(frac.out.val) = Front(frac.a)
                     /\ Last(frac.out.val) > Last(frac.a)
    /\ (frac.op = "generate_sequence" /\ frac.done)
          => /\ Len(frac.xs) = frac.count
             /\ \A i \in 1..Len(frac.xs) : IsValidIndex(frac.xs[i])
             /\ \A i \in 1..(Len(frac.xs) - 1) : StrLess(frac.xs[i], frac.xs[i + 1])
             /\ frac.count > 0 => frac.xs[1] = <<97, 48>>

\* after was applied to a valid index ending in 'z' (the append branch).
C8_Witness ==
    /\ frac.op = "after" /\ frac.done /\ IsValidIndex(frac.a)
    /\ Last(frac.a) = 122 /\ frac.out.ok

(***************************************************************************)
(* Harness for the store: any event may be offered to append_event.        *)
(***************************************************************************)
MaxIds == 3                     \* distinct event ids offered

EventIds == 1..MaxIds           \* the nanosecond number of "event-<nanos>"
Aggregates == {"x", "y"}
OfferedVersions == 0..(MaxIds + 1)
\* The id is the nanosecond clock at build and the timestamp the same clock in
\* seconds: two consecutive ids fall into one second.
TimestampOf(id) == (id + 1) \div 2

StoreInit ==
    /\ store = NewStore
    /\ call = NoCall
    /\ frac = FracIdle
    /\ ProjIdle
    /\ MatIdle
    /\ ListingIdle
    /\ ClientIdle
    /\ ServerIdle

AppendEvent ==
    \E id \in EventIds, a \in Aggregates, v \in OfferedVersions :
        LET event == Event(id, "DocumentTitleUpdated", a, <<>>, TimestampOf(id), v)
            r == append_event(store, event)
        IN /\ store' = r.store
           /\ call' = [event |-> event, result |-> r.result]
           /\ UNCHANGED notstore

StoreNext == AppendEvent

SpecStore == StoreInit /\ [][StoreNext]_vars

----
\* C1: after any sequence of append_event calls, get_events(a) holds only events
\* of aggregate a, all of them, and their versions are 1, 2, ..., n in that order.
C1_VersionsContiguous ==
    \A a \in Aggregates :
        LET evs == get_events(store, a) IN
        /\ \A i \in 1..Len(evs) : evs[i].aggregate_id = a /\ evs[i].version = i
        /\ Len(evs) = Cardinality({i \in 1..Len(store.events) :
                                      store.events[i].aggregate_id = a})

\* Both aggregates hold events and one of them holds two, after a rejected call.
C1_Witness ==
    /\ Len(get_events(store, "x")) >= 2
    /\ Len(get_events(store, "y")) >= 1
    /\ call.result.kind \in {"InvalidVersion", "DuplicateEventId"}

IdStored(s, id) == \E i \in 1..Len(s.events) : s.events[i].id = id

\* C2: append_event of an event with a fresh id and a version other than
\* latest + 1 returns InvalidVersion{expected: latest + 1, got: version} and
\* leaves the events and the version map as they were.
C2_InvalidVersionRejected ==
    [][ (/\ call'.result.kind # "none"
         /\ ~IdStored(store, call'.event.id)
         /\ call'.event.version # get_latest_version(store, call'.event.aggregate_id) + 1)
        => /\ call'.result =
                 [kind |-> "InvalidVersion",
                  expected |-> get_latest_version(store, call'.event.aggregate_id) + 1,
                  got |-> call'.event.version]
           /\ store' = store
           /\ \A a \in Aggregates :
                 get_latest_version(store', a) = get_latest_version(store, a) ]_vars

\* test_version_validation: version 3 offered when 2 is expected.
C2_Witness ==
    /\ call.result = [kind |-> "InvalidVersion", expected |-> 2, got |-> 3]
    /\ Len(store.events) = 1

NoTwoEventsShareId ==
    \A i, j \in 1..Len(store.events) :
        store.events[i].id = store.events[j].id => i = j

\* C3: no two stored events share an id, across aggregates; append_event of an
\* event whose id is stored returns DuplicateEventId, whatever its version, and
\* leaves the store unchanged.
C3_IdsUnique ==
    /\ []NoTwoEventsShareId
    /\ [][ (call'.result.kind # "none" /\ IdStored(store, call'.event.id))
            => /\ call'.result = [kind |-> "DuplicateEventId", id |-> call'.event.id]
               /\ store' = store ]_vars

\* A duplicate id offered for another aggregate with the version that aggregate
\* expects next.
C3_Witness ==
    /\ call.result.kind = "DuplicateEventId"
    /\ call.event.version = get_latest_version(store, call.event.aggregate_id) + 1
    /\ \E i \in 1..Len(store.events) :
          /\ store.events[i].id = call.event.id
          /\ store.events[i].aggregate_id # call.event.aggregate_id


(***************************************************************************)
(* Harness for the projection: one aggregate's log grows by accepted       *)
(* appends; one projection is fed the log event by event through           *)
(* apply_new_events, another is rebuilt from the whole log.                *)
(***************************************************************************)
MaxLog == 2        \* events appended to the log
MaxTime == 2       \* largest timestamp an event carries

ProjTimes == 0..MaxTime

ProjAggregate == "x"

\* The (event_type, payload) pairs submitted.
ProjTemplates ==
    { [event_type |-> "DocumentCreated", payload |-> [title |-> JStr("T")]],
      [event_type |-> "DocumentTitleUpdated", payload |-> [title |-> JStr("T2")]],
      [event_type |-> "DocumentMetadataUpdated", payload |-> [metadata |-> JObj("meta1")]],
      [event_type |-> "CellCreated",
       payload |-> [cell_id |-> JStr("c1"), cell_type |-> JStr("code"),
                    source |-> JStr("print(1)"), fractional_index |-> JStr(<<97, 48>>)]],
      [event_type |-> "CellCreated",
       payload |-> [cell_id |-> JStr("c2"), cell_type |-> JStr("bogus")]],
      [event_type |-> "CellSourceUpdated",
       payload |-> [cell_id |-> JStr("c1"), source |-> JStr("print(2)")]],
      [event_type |-> "CellExecutionStateChanged",
       payload |-> [cell_id |-> JStr("c1"), execution_state |-> JStr("running")]],
      [event_type |-> "CellOutputCreated",
       payload |-> [output_id |-> JStr("o1"), cell_id |-> JStr("c1"),
                    output_type |-> JStr("terminal")]],
      [event_type |-> "CellMoved",
       payload |-> [cell_id |-> JStr("c1"), fractional_index |-> JStr(<<97, 49>>)]],
      [event_type |-> "CellDeleted", payload |-> [cell_id |-> JStr("c1")]],
      [event_type |-> "DocumentDeleted", payload |-> <<>>],
      [event_type |-> "CommentAdded", payload |-> <<>>] }

ProjInit ==
    /\ store = NewStore
    /\ call = NoCall
    /\ inc = NewProjection
    /\ fed = 0
    /\ reb = NoRebuild
    /\ frac = FracIdle
    /\ MatIdle
    /\ ListingIdle
    /\ ClientIdle
    /\ ServerIdle

\* An event with the next version and a fresh id is appended to the log.
ProjAppend ==
    /\ Len(store.events) < MaxLog
    /\ \E tpl \in ProjTemplates, t \in ProjTimes :
          LET event == Event(Len(store.events) + 1, tpl.event_type, ProjAggregate,
                             tpl.payload, t,
                             get_latest_version(store, ProjAggregate) + 1)
              r == append_event(store, event)
          IN /\ r.result = EOk
             /\ store' = r.store
             /\ call' = [event |-> event, result |-> r.result]
    /\ UNCHANGED <<inc, fed, reb, notproj>>

\* The next event of the log is given to apply_new_events, alone.
ProjApplyNew ==
    /\ fed < Len(get_events(store, ProjAggregate))
    /\ inc' = apply_new_events(inc, <<get_events(store, ProjAggregate)[fed + 1]>>).projection
    /\ fed' = fed + 1
    /\ UNCHANGED <<store, call, reb, notproj>>

\* rebuild_from_events on the log as it is now.
ProjRebuild ==
    /\ LET events == get_events(store, ProjAggregate)
           r == rebuild_from_events(reb.projection, events)
       IN reb' = [called |-> TRUE, projection |-> r.projection, result |-> r.result,
                  n |-> Len(events)]
    /\ UNCHANGED <<store, call, inc, fed, notproj>>

ProjNext ==
    \/ ProjAppend
    \/ ProjApplyNew
    \/ ProjRebuild

SpecProj == ProjInit /\ [][ProjNext]_vars

----
\* C4: for every log the store accepted for one aggregate, the state of a fresh
\* projection fed the events one at a time through apply_new_events, in log
\* order, equals the state rebuild_from_events produces from the same log.
C4_IncrementalEqualsRebuild ==
    (/\ reb.called
     /\ reb.n = Len(store.events)
     /\ fed = Len(store.events))
        => inc.state = reb.projection.state

(***************************************************************************)
(* The server: HTTP request tasks and WebSocket connection tasks           *)
(* interleave at their suspension points (each .await that can block).     *)
(***************************************************************************)
\* What the clock reads when an event is built: the nanosecond number of the
\* id; TimestampOf gives the second it falls into.
ClockReadings == {1, 2}

\* The request bodies submitted: one the projection applies, one it rejects
\* (unknown cell_type), one whose event_type is blank.
ServerBodies ==
    { [event_type |-> "DocumentCreated", payload |-> [title |-> JStr("T")]],
      [event_type |-> "CellCreated",
       payload |-> [cell_id |-> JStr("c2"), cell_type |-> JStr("bogus")]],
      [event_type |-> " ", payload |-> <<>>] }

ServerQueries ==
    { NoQuery,
      GetEventsQuery(Some(0), Some(1), Some(1)) }

\* Each task serves one request. The tasks are interchangeable: of two
\* submits the first to start is given to "r1", and a read to "r2".
MaySubmit(r) == r = "r1" \/ req["r1"].pc # "idle"

MayGet(r) == r = "r2"

\* The store a connection's URL names; the stores are interchangeable, so the
\* first connection is given "x".
UrlStores(c) == IF c = "c1" THEN {"x"} ELSE Stores

\* The events a client has been handed over a socket for one store.
SocketEvents(cn, store_id) ==
    UNION {{cn[c].socket[i].event :
               i \in {j \in 1..Len(cn[c].socket) :
                         /\ cn[c].socket[j].type = "event"
                         /\ cn[c].socket[j].store_id = store_id}} : c \in Conns}

HistEntry(task, store_id) ==
    [task |-> task, store |-> store_id, status |-> "locked", id |-> 0, version |-> 0]

ServerInit ==
    /\ ServerIdle
    /\ frac = FracIdle
    /\ StoreIdle
    /\ ProjIdle
    /\ MatIdle
    /\ ListingIdle
    /\ ClientIdle

StartSubmit(r) ==
    /\ req[r].pc = "idle"
    /\ MaySubmit(r)
    /\ \E s \in PostStores :
          req' = [req EXCEPT ![r] = [IdleReq EXCEPT !.kind = "submit",
                                                    !.pc = "ensure_stores",
                                                    !.store = s]]
    /\ UNCHANGED <<stores, projections, wlock, connections, conn, hist>>
    /\ UNCHANGED notserver

StartGet(r) ==
    /\ req[r].pc = "idle"
    /\ MayGet(r)
    /\ \E s \in Stores, k \in {"get", "info"} :
          req' = [req EXCEPT ![r] = [IdleReq EXCEPT !.kind = k,
                                                    !.pc = "ensure_stores",
                                                    !.store = s,
                                                    !.seen = SocketEvents(conn, s)]]
    /\ UNCHANGED <<stores, projections, wlock, connections, conn, hist>>
    /\ UNCHANGED notserver

\* ensure_store_exists: self.stores.write().await
EnsureLockStores(r) ==
    /\ req[r].pc = "ensure_stores"
    /\ CanWrite(wlock.stores)
    /\ wlock' = [wlock EXCEPT !.stores = r]
    /\ req' = [req EXCEPT ![r].pc = "ensure_projections"]
    /\ UNCHANGED <<stores, projections, connections, conn, hist>>
    /\ UNCHANGED notserver

EnsureInsert_keeps_guards(r) ==
    /\ req[r].pc = "ensure_projections"
    /\ CanWrite(wlock.projections)
    /\ stores' = ensure_store_exists(stores, req[r].store, NewStore)
    /\ projections' = ensure_store_exists(projections, req[r].store, NewProjection)
    /\ wlock' = [stores |-> r, projections |-> r]
    /\ req' = [req EXCEPT ![r].pc = IF req[r].kind = "submit" THEN "lock_stores"
                                                                ELSE "read"]
    /\ UNCHANGED <<connections, conn, hist>>
    /\ UNCHANGED notserver

\* ensure_store_exists: self.projections.write().await, the two inserts, and
\* both guards dropped at the end of the function.
EnsureInsert(r) ==
    /\ req[r].pc = "ensure_projections"
    /\ CanWrite(wlock.projections)
    /\ stores' = ensure_store_exists(stores, req[r].store, NewStore)
    /\ projections' = ensure_store_exists(projections, req[r].store, NewProjection)
    /\ wlock' = NoLocks
    /\ req' = [req EXCEPT ![r].pc = IF req[r].kind = "submit" THEN "lock_stores"
                                                                ELSE "read"]
    /\ UNCHANGED <<connections, conn, hist>>
    /\ UNCHANGED notserver

\* submit_event: app_state.stores.write().await
SubmitLockStores(r) ==
    /\ req[r].pc = "lock_stores"
    /\ CanWrite(wlock.stores)
    /\ wlock' = [wlock EXCEPT !.stores = r]
    /\ hist' = Append(hist, HistEntry(r, req[r].store))
    /\ req' = [req EXCEPT ![r].pc = "lock_projections", ![r].inst = Len(hist) + 1]
    /\ UNCHANGED <<stores, projections, connections, conn>>
    /\ UNCHANGED notserver

\* submit_event: app_state.projections.write().await, then everything up to
\* the first suspension point of broadcast_event; an error returns and drops
\* both guards. The request body is drawn here, where it is first used.
SubmitLocked(r) ==
    /\ req[r].pc = "lock_projections"
    /\ CanWrite(wlock.projections)
    /\ \E id \in ClockReadings, body \in ServerBodies :
          LET s == req[r].store
              out == submit_event_locked(stores[s], projections[s], s, body,
                                         id, TimestampOf(id))
          IN /\ stores' = [stores EXCEPT ![s] = out.event_store]
             /\ projections' = [projections EXCEPT ![s] = out.projection]
             /\ IF out.ok
                THEN /\ wlock' = [wlock EXCEPT !.projections = r]
                     /\ req' = [req EXCEPT ![r].pc = "broadcast", ![r].body = body,
                                           ![r].event = out.event,
                                           ![r].applied = out.applied]
                     /\ hist' = [hist EXCEPT ![req[r].inst].status = "appended",
                                             ![req[r].inst].id = out.event.id,
                                             ![req[r].inst].version = out.event.version]
                ELSE /\ wlock' = NoLocks
                     /\ req' = [req EXCEPT ![r].pc = "done", ![r].body = body,
                                           ![r].response = out.response]
                     /\ hist' = [hist EXCEPT ![req[r].inst].status = "failed"]
    /\ UNCHANGED <<connections, conn>>
    /\ UNCHANGED notserver

\* The end of submit_event: Ok(Json(SubmitEventResponse { event_id, version })),
\* the guards dropped.
Responded(rq) ==
    [rq EXCEPT !.pc = "done",
               !.response = SubmitEventResponse(rq.event.id, rq.event.version)]

\* broadcast_event: self.connections.read().await, the loop of sends, the read
\* guard dropped; with nothing to clean up the handler runs to its end.
BroadcastSend(r) ==
    /\ req[r].pc = "broadcast"
    /\ LET b == broadcast_event_send(connections, conn, req[r].store, req[r].event)
       IN /\ conn' = b.conn
          /\ IF b.disconnected = <<>>
             THEN /\ req' = [req EXCEPT ![r] = Responded(req[r])]
                  /\ wlock' = NoLocks
                  /\ hist' = [hist EXCEPT ![req[r].inst].status = "ok"]
             ELSE /\ req' = [req EXCEPT ![r].pc = "cleanup",
                                        ![r].disconnected = b.disconnected]
                  /\ UNCHANGED <<wlock, hist>>
    /\ UNCHANGED <<stores, projections, connections>>
    /\ UNCHANGED notserver

\* broadcast_event: self.unsubscribe(&store_id, &connection_id).await for the
\* next disconnected connection; after the last one the handler runs to its end.
BroadcastCleanup(r) ==
    /\ req[r].pc = "cleanup"
    /\ connections' = unsubscribe(connections, req[r].store, Head(req[r].disconnected))
    /\ IF Tail(req[r].disconnected) = <<>>
       THEN /\ req' = [req EXCEPT ![r] = [Responded(req[r]) EXCEPT !.disconnected = <<>>]]
            /\ wlock' = NoLocks
            /\ hist' = [hist EXCEPT ![req[r].inst].status = "ok"]
       ELSE /\ req' = [req EXCEPT ![r].disconnected = Tail(@)]
            /\ UNCHANGED <<wlock, hist>>
    /\ UNCHANGED <<stores, projections, conn>>
    /\ UNCHANGED notserver

\* get_events: app_state.stores.read().await and the rest of the handler. The
\* query is drawn here, where it is first used.
GetRead(r) ==
    /\ req[r].pc = "read"
    /\ req[r].kind = "get"
    /\ CanRead(wlock.stores)
    /\ \E query \in ServerQueries :
          req' = [req EXCEPT ![r].pc = "done", ![r].query = query,
                             ![r].response = get_events_read(stores[req[r].store],
                                                             req[r].store, query)]
    /\ UNCHANGED <<stores, projections, wlock, connections, conn, hist>>
    /\ UNCHANGED notserver

\* get_store_info: app_state.stores.read().await and the rest of the handler.
InfoRead(r) ==
    /\ req[r].pc = "read"
    /\ req[r].kind = "info"
    /\ CanRead(wlock.stores)
    /\ req' = [req EXCEPT ![r].pc = "done",
                          ![r].response = get_store_info_read(stores[req[r].store],
                                                              req[r].store)]
    /\ UNCHANGED <<stores, projections, wlock, connections, conn, hist>>
    /\ UNCHANGED notserver

\* list_stores: the whole handler; it names no store and calls
\* ensure_store_exists for none.
ListStores(r) ==
    /\ req[r].pc = "idle"
    /\ MayGet(r)
    /\ CanRead(wlock.stores)
    /\ req' = [req EXCEPT ![r] = [IdleReq EXCEPT !.kind = "list", !.pc = "done",
                                                 !.response = list_stores_read(stores)]]
    /\ UNCHANGED <<stores, projections, wlock, connections, conn, hist>>
    /\ UNCHANGED notserver

\* handle_socket: the channel is created and manager.subscribe(..).await adds
\* the connection to the store of the URL.
WsConnect(c) ==
    /\ conn[c].pc = "new"
    /\ \E s \in UrlStores(c) :
          /\ connections' = subscribe(connections, s, c)
          /\ conn' = [conn EXCEPT ![c].pc = "confirm", ![c].store = s,
                                  ![c].ch = NewChannel]
    /\ UNCHANGED <<stores, projections, wlock, req, hist>>
    /\ UNCHANGED notserver

\* handle_socket: the subscription confirmation is written to the socket; when
\* the write fails the function returns, which drops rx and skips disconnect.
WsConfirm(c) ==
    /\ conn[c].pc = "confirm"
    /\ \E sent \in BOOLEAN :
          conn' = IF sent
                  THEN [conn EXCEPT ![c].pc = "running",
                                    ![c].socket = Append(@, WsSubscribed(conn[c].store, c))]
                  ELSE [conn EXCEPT ![c].pc = "returned", ![c].ch = drop_rx(@)]
    /\ UNCHANGED <<stores, projections, wlock, connections, req, hist>>
    /\ UNCHANGED notserver

\* send_task: rx.recv() yields the oldest queued message and it is written to
\* the socket; a failed write ends the task, which drops rx, and select! then
\* aborts recv_task.
WsForward(c) ==
    /\ conn[c].pc = "running"
    /\ ~conn[c].ch.lagged
    /\ conn[c].ch.queue # <<>>
    /\ \E sent \in BOOLEAN :
          conn' = IF sent
                  THEN [conn EXCEPT ![c].ch.queue = Tail(@),
                                    ![c].socket = Append(@, Head(conn[c].ch.queue))]
                  ELSE [conn EXCEPT ![c].ch = drop_rx(@), ![c].pc = "disconnecting"]
    /\ UNCHANGED <<stores, projections, wlock, connections, req, hist>>
    /\ UNCHANGED notserver

\* send_task: rx.recv() is an error (the receiver lagged, or the channel is
\* empty and its Sender was dropped), which ends the while-let loop and the
\* task; select! then aborts recv_task.
WsRecvError(c) ==
    /\ conn[c].pc = "running"
    /\ \/ conn[c].ch.lagged
       \/ conn[c].ch.queue = <<>> /\ ~SenderExists(connections, c)
    /\ conn' = [conn EXCEPT ![c].pc = "disconnecting", ![c].ch = drop_rx(@)]
    /\ UNCHANGED <<stores, projections, wlock, connections, req, hist>>
    /\ UNCHANGED notserver

\* recv_task: the client sends {"type":"unsubscribe","store_id":s}; subscribe
\* and ping messages change nothing.
WsClientUnsubscribe(c) ==
    /\ conn[c].pc = "running"
    /\ \E s \in Stores : connections' = unsubscribe(connections, s, c)
    /\ UNCHANGED <<stores, projections, wlock, conn, req, hist>>
    /\ UNCHANGED notserver

\* recv_task: a Close frame or a socket error ends the loop and the task;
\* select! then aborts send_task.
WsClientClose(c) ==
    /\ conn[c].pc = "running"
    /\ conn' = [conn EXCEPT ![c].pc = "disconnecting"]
    /\ UNCHANGED <<stores, projections, wlock, connections, req, hist>>
    /\ UNCHANGED notserver

\* The aborted send_task is dropped by the runtime, and rx with it.
WsAbortEffect(c) ==
    /\ conn[c].pc = "disconnecting"
    /\ conn[c].ch.rx
    /\ conn' = [conn EXCEPT ![c].ch = drop_rx(@)]
    /\ UNCHANGED <<stores, projections, wlock, connections, req, hist>>
    /\ UNCHANGED notserver

\* handle_socket: manager.disconnect(&connection_id).await; once the Sender
\* is out of the map nothing reaches the channel any more, so the drop of an
\* aborted send_task that is still pending is taken here.
WsDisconnect(c) ==
    /\ conn[c].pc = "disconnecting"
    /\ connections' = disconnect(connections, c)
    /\ conn' = [conn EXCEPT ![c].pc = "closed", ![c].ch = drop_rx(@)]
    /\ UNCHANGED <<stores, projections, wlock, req, hist>>
    /\ UNCHANGED notserver

ServerNext ==
    \/ \E r \in Tasks : StartSubmit(r)
    \/ \E r \in Tasks : StartGet(r)
    \/ \E r \in Tasks : EnsureLockStores(r)
    \/ \E r \in Tasks : EnsureInsert(r)
    \/ \E r \in Tasks : SubmitLockStores(r)
    \/ \E r \in Tasks : SubmitLocked(r)
    \/ \E r \in Tasks : BroadcastSend(r)
    \/ \E r \in Tasks : BroadcastCleanup(r)
    \/ \E r \in Tasks : GetRead(r)
    \/ \E r \in Tasks : InfoRead(r)
    \/ \E r \in Tasks : ListStores(r)
    \/ \E c \in Conns : WsConnect(c)
    \/ \E c \in Conns : WsConfirm(c)
    \/ \E c \in Conns : WsForward(c)
    \/ \E c \in Conns : WsRecvError(c)
    \/ \E c \in Conns : WsClientUnsubscribe(c)
    \/ \E c \in Conns : WsClientClose(c)
    \/ \E c \in Conns : WsAbortEffect(c)
    \/ \E c \in Conns : WsDisconnect(c)

SpecServer == ServerInit /\ [][ServerNext]_vars

(***************************************************************************)
(* Claims about the server.                                                *)
(***************************************************************************)

\* A submit_event call that holds the write guard of AppState.stores.
InSection(r) == req[r].pc \in {"lock_projections", "broadcast", "cleanup"}

\* The submits of one store that appended, in the order they took the lock.
Winners(store_id) ==
    LET Won(h) == h.store = store_id /\ h.status \in {"appended", "ok"}
    IN SelectSeq(hist, Won)

\* C5: concurrent submits to a store are serialized by the write lock: no two
\* requests are between taking the lock and the end of the broadcast at the
\* same time; the submits that succeed get the versions 1..n in the order in
\* which they took the lock, the response carries that version, and get_events
\* lists their events in that order.
C5_SubmitsSerialized ==
    /\ \A r1 \in Tasks, r2 \in Tasks : InSection(r1) /\ InSection(r2) => r1 = r2
    /\ \A s \in DOMAIN stores :
          LET won == Winners(s)
              listed == get_events(stores[s], s)
          IN /\ Len(listed) = Len(won)
             /\ \A k \in 1..Len(won) :
                   /\ won[k].version = k
                   /\ listed[k].version = k
                   /\ listed[k].id = won[k].id
    /\ \A r \in Tasks :
          req[r].kind = "submit" /\ req[r].response.status = 200
             => /\ hist[req[r].inst].status = "ok"
                /\ req[r].response.version = hist[req[r].inst].version
                /\ req[r].response.event_id = hist[req[r].inst].id

\* Two requests of different tasks appended to the same store, the second one
\* while the first had already answered.
C5_Witness ==
    /\ Len(hist) = 2
    /\ hist[1].store = hist[2].store
    /\ hist[1].task # hist[2].task
    /\ hist[1].status = "ok"
    /\ hist[2].status = "appended"
    /\ hist[2].version = 2

\* C9: the broadcast of a successful submit to store x enqueues exactly one
\* event message, carrying store_id x and the submitted event, to every
\* connection that is subscribed to x and whose channel is open, and nothing to
\* any other connection; the version of that event is the version the submit
\* response returns.
C9_BroadcastReachesSubscribers ==
    [][\A r \in Tasks :
          /\ (req[r].pc = "broadcast" /\ req'[r].pc # "broadcast")
                => \A c \in Conns :
                      IF IsSubscribed(connections, req[r].store, c) /\ conn[c].ch.rx
                      THEN conn'[c].ch.queue =
                              Append(conn[c].ch.queue, WsEvent(req[r].store, req[r].event))
                      ELSE conn'[c].ch.queue = conn[c].ch.queue
          /\ (req[r].pc \in {"broadcast", "cleanup"} /\ req'[r].pc = "done")
                => /\ req'[r].response.status = 200
                   /\ req'[r].response.version = req[r].event.version
                   /\ req'[r].response.event_id = req[r].event.id
          /\ (req[r].kind = "submit" /\ req[r].pc # "done" /\ req'[r].pc = "done"
                /\ req'[r].response.status = 200)
                => req[r].pc \in {"broadcast", "cleanup"}]_vars

\* A submit to one store has answered, a subscriber of that store holds its
\* event message and a subscriber of the other store holds nothing.
C9_Witness ==
    \E r \in Tasks, c \in Conns, d \in Conns :
        /\ req[r].kind = "submit" /\ req[r].pc = "done" /\ req[r].response.status = 200
        /\ conn[c].store = req[r].store
        /\ conn[c].ch.queue = <<WsEvent(req[r].store, req[r].event)>>
        /\ req[r].event.version = req[r].response.version
        /\ d # c /\ conn[d].pc = "running" /\ conn[d].store # req[r].store
        /\ conn[d].ch.queue = <<>>
        /\ Len(conn[d].socket) = 1

\* The event messages queued for or written to the socket of a connection.
PushedMessages(c) ==
    LET IsEvent(m) == m.type = "event"
    IN SelectSeq(conn[c].ch.queue \o conn[c].socket, IsEvent)

InLog(store_id, event) ==
    /\ store_id \in DOMAIN stores
    /\ \E i \in 1..Len(stores[store_id].events) : stores[store_id].events[i] = event
    /\ event.version <= get_latest_version(stores[store_id], store_id)

\* C10: every event message queued for or delivered to a subscriber is
\* already in the log of the store it names, with a version no greater than
\* the store's latest version; and a GET events that started after an event
\* was delivered over a socket has that event in the log it reads, and returns
\* it whenever its own since_timestamp, limit and offset do not cut it out.
C10_PushedEventsAreStored ==
    /\ \A c \in Conns :
          \A i \in 1..Len(PushedMessages(c)) :
             InLog(PushedMessages(c)[i].store_id, PushedMessages(c)[i].event)
    /\ \A r \in Tasks :
          req[r].kind = "get" /\ req[r].pc = "done"
             => /\ \A e \in req[r].seen : InLog(req[r].store, e)
                /\ req[r].response.total_count >=
                      Cardinality({e \in req[r].seen :
                                     req[r].query.since_timestamp.some
                                        => e.timestamp > req[r].query.since_timestamp.v})
                /\ req[r].query = NoQuery
                      => \A e \in req[r].seen :
                            \E i \in 1..Len(req[r].response.events) :
                               req[r].response.events[i] = e

\* A GET events without query parameters that started after a subscriber was
\* handed an event has answered.
C10_Witness ==
    \E r \in Tasks :
        /\ req[r].kind = "get" /\ req[r].pc = "done"
        /\ req[r].query = NoQuery
        /\ req[r].seen # {}
        /\ \A e \in req[r].seen :
              \E i \in 1..Len(req[r].response.events) : req[r].response.events[i] = e

\* The step in which request r makes the sends of broadcast_event.
Broadcasts(r) == req[r].pc = "broadcast" /\ req'[r].pc # "broadcast"

\* C11 as stated: the sends of broadcast_event are made only after
\* append_event succeeded and apply_new_events succeeded for the event, and
\* while the request still holds the write guards.
C11_BroadcastAfterApplySucceeded ==
    [][\A r \in Tasks :
          Broadcasts(r)
             => /\ InLog(req[r].store, req[r].event)
                /\ req[r].applied = EOk
                /\ wlock.stores = r /\ wlock.projections = r]_vars

\* C11 amended: an event message is queued only by the broadcast of a request
\* whose append_event succeeded and whose apply_new_events call has returned,
\* with Ok or with an error that is only logged, and which still holds the
\* write guards of stores and projections.
C11_BroadcastAfterAppend ==
    [][/\ \A r \in Tasks :
             Broadcasts(r)
                => /\ InLog(req[r].store, req[r].event)
                   /\ req[r].applied.kind \in {"Ok", "ValidationError"}
                   /\ wlock.stores = r /\ wlock.projections = r
       /\ \A c \in Conns :
             Len(conn'[c].ch.queue) > Len(conn[c].ch.queue)
                => \E r \in Tasks :
                      /\ Broadcasts(r)
                      /\ Last(conn'[c].ch.queue) = WsEvent(req[r].store, req[r].event)]_vars

\* A subscriber holds the message of an event the projection refused.
C11_Witness ==
    \E r \in Tasks, c \in Conns :
        /\ req[r].kind = "submit" /\ req[r].pc = "done"
        /\ req[r].applied.kind = "ValidationError"
        /\ InLog(req[r].store, req[r].event)
        /\ conn[c].ch.queue # <<>>
        /\ Last(conn[c].ch.queue) = WsEvent(req[r].store, req[r].event)

(***************************************************************************)
(* The server with a subscriber that has fallen behind: store "x" already  *)
(* holds a number of events, and connection "c1" has all of them still     *)
(* queued because its socket does not take them.                           *)
(***************************************************************************)

\* The i-th event submitted earlier, of a kind the materializer ignores.
BacklogEvent(store_id, i) ==
    Event(10 + i, "CommentAdded", store_id, <<>>, TimestampOf(10 + i), i)

BacklogStore(store_id, n) ==
    [events |-> [i \in 1..n |-> BacklogEvent(store_id, i)],
     version_map |-> IF n = 0 THEN <<>> ELSE MapInsert(<<>>, store_id, n)]

\* Nothing queued, one slot left, and a full buffer.
BacklogSizes == {0, ChannelCapacity - 1, ChannelCapacity}

BacklogInit ==
    /\ \E n \in BacklogSizes, confirmed \in BOOLEAN :
          /\ stores = MapInsert(<<>>, "x", BacklogStore("x", n))
          /\ hist = [i \in 1..n |->
                        [task |-> "earlier", store |-> "x", status |-> "ok",
                         id |-> 10 + i, version |-> i]]
          /\ conn = [c \in Conns |->
                        IF c = "c1"
                        THEN [pc |-> "running", store |-> "x",
                              ch |-> [NewChannel EXCEPT
                                         !.queue = [i \in 1..n |->
                                                      WsEvent("x", BacklogEvent("x", i))]],
                              socket |-> <<WsSubscribed("x", c)>>]
                        ELSE IF confirmed
                        THEN [pc |-> "running", store |-> "x", ch |-> NewChannel,
                              socket |-> <<WsSubscribed("x", c)>>]
                        ELSE [pc |-> "returned", store |-> "x",
                              ch |-> drop_rx(NewChannel), socket |-> <<>>]]
    /\ projections = MapInsert(<<>>, "x", NewProjection)
    /\ wlock = NoLocks
    /\ connections = MapInsert(<<>>, "x", <<"c1", "c2">>)
    /\ req = [r \in Tasks |-> IdleReq]
    /\ frac = FracIdle
    /\ StoreIdle
    /\ ProjIdle
    /\ MatIdle
    /\ ListingIdle
    /\ ClientIdle

BacklogNext ==
    \/ \E r \in Tasks : StartSubmit(r)
    \/ \E r \in Tasks : EnsureLockStores(r)
    \/ \E r \in Tasks : EnsureInsert(r)
    \/ \E r \in Tasks : SubmitLockStores(r)
    \/ \E r \in Tasks : SubmitLocked(r)
    \/ \E r \in Tasks : BroadcastSend(r)
    \/ \E r \in Tasks : BroadcastCleanup(r)
    \/ \E c \in Conns : WsRecvError(c)
    \/ \E c \in Conns : WsDisconnect(c)

SpecBacklog == BacklogInit /\ [][BacklogNext]_vars

\* A send into the channel of connection c fails in the sense of the claim:
\* the channel is closed or its buffer holds ChannelCapacity messages.
ClosedOrFull(c) == ~conn[c].ch.rx \/ Len(conn[c].ch.queue) >= ChannelCapacity

Marked(disconnected, c) == \E i \in 1..Len(disconnected) : disconnected[i] = c

\* C12: in broadcast_event every subscriber of the store whose channel is
\* closed or whose buffer is full is marked and then removed from the store's
\* subscriber list once the read guard is dropped; a subscriber whose enqueue
\* succeeded is not marked and stays subscribed; the submit answers 200
\* whatever happened to the sends.
C12_FailedEnqueueRemoved ==
    [][\A r \in Tasks :
          /\ Broadcasts(r)
                => /\ \A c \in Conns :
                         IsSubscribed(connections, req[r].store, c)
                            => IF ClosedOrFull(c)
                               THEN \/ Marked(req'[r].disconnected, c)
                                    \/ ~IsSubscribed(connections', req[r].store, c)
                               ELSE /\ ~Marked(req'[r].disconnected, c)
                                    /\ IsSubscribed(connections', req[r].store, c)
                   /\ connections' = connections
          /\ (req[r].pc = "cleanup" /\ req'[r] # req[r])
                => ~IsSubscribed(connections', req[r].store, Head(req[r].disconnected))
          /\ (req[r].pc \in {"broadcast", "cleanup"} /\ req'[r].pc = "done")
                => req'[r].response = SubmitEventResponse(req[r].event.id,
                                                          req[r].event.version)]_vars

(***************************************************************************)
(* Harness for the materializer: the events of one aggregate are folded    *)
(* into a state one at a time through apply_event, as rebuild_from_events  *)
(* and apply_new_events do for each event they apply.                      *)
(***************************************************************************)
MaxApplied == 3    \* events applied after the seed

\* Well-formed events.
ApplyWellFormed ==
    { [event_type |-> "DocumentCreated", payload |-> [title |-> JStr("T")]],
      [event_type |-> "CellCreated",
       payload |-> [cell_id |-> JStr("c1"), cell_type |-> JStr("code")]],
      [event_type |-> "CellCreated",
       payload |-> [cell_id |-> JStr("c2"), cell_type |-> JStr("markdown")]],
      [event_type |-> "CellOutputCreated",
       payload |-> [output_id |-> JStr("o1"), cell_id |-> JStr("c1"),
                    output_type |-> JStr("terminal")]],
      [event_type |-> "CellOutputCreated",
       payload |-> [output_id |-> JStr("o2"), cell_id |-> JStr("c2"),
                    output_type |-> JStr("terminal")]],
      [event_type |-> "CellDeleted", payload |-> [cell_id |-> JStr("c1")]],
      [event_type |-> "CellDeleted", payload |-> [cell_id |-> JStr("c2")]],
      [event_type |-> "CommentAdded", payload |-> <<>>] }

\* The keys each handled kind requires in its payload (spec section 4.3).
RequiredKeys(event_type) ==
    CASE event_type = "DocumentTitleUpdated" -> {"title"}
      [] event_type = "DocumentMetadataUpdated" -> {"metadata"}
      [] event_type = "CellCreated" -> {"cell_id", "cell_type"}
      [] event_type = "CellSourceUpdated" -> {"cell_id", "source"}
      [] event_type = "CellExecutionStateChanged" -> {"cell_id"}
      [] event_type = "CellOutputCreated" -> {"output_id", "cell_id", "output_type"}
      [] event_type = "CellMoved" -> {"cell_id", "fractional_index"}
      [] event_type = "CellDeleted" -> {"cell_id"}
      [] OTHER -> {}

\* A payload with every key of its kind.
FullPayload(event_type) ==
    CASE event_type = "DocumentTitleUpdated" -> [title |-> JStr("T2")]
      [] event_type = "DocumentMetadataUpdated" -> [metadata |-> JObj("meta1")]
      [] event_type = "CellCreated" ->
            [cell_id |-> JStr("c1"), cell_type |-> JStr("code")]
      [] event_type = "CellSourceUpdated" ->
            [cell_id |-> JStr("c1"), source |-> JStr("print(2)")]
      [] event_type = "CellExecutionStateChanged" -> [cell_id |-> JStr("c1")]
      [] event_type = "CellOutputCreated" ->
            [output_id |-> JStr("o1"), cell_id |-> JStr("c1"),
             output_type |-> JStr("terminal")]
      [] event_type = "CellMoved" ->
            [cell_id |-> JStr("c1"), fractional_index |-> JStr(<<97, 49>>)]
      [] event_type = "CellDeleted" -> [cell_id |-> JStr("c1")]
      [] OTHER -> <<>>

\* Events lacking exactly one key their kind requires.
ApplyMissingKey ==
    { [event_type |-> t, payload |-> MapRemove(FullPayload(t), k)] :
          <<t, k>> \in { <<"DocumentTitleUpdated", "title">>,
                         <<"DocumentMetadataUpdated", "metadata">>,
                         <<"CellCreated", "cell_id">>,
                         <<"CellCreated", "cell_type">>,
                         <<"CellSourceUpdated", "cell_id">>,
                         <<"CellSourceUpdated", "source">>,
                         <<"CellExecutionStateChanged", "cell_id">>,
                         <<"CellOutputCreated", "output_id">>,
                         <<"CellOutputCreated", "cell_id">>,
                         <<"CellOutputCreated", "output_type">>,
                         <<"CellMoved", "cell_id">>,
                         <<"CellMoved", "fractional_index">>,
                         <<"CellDeleted", "cell_id">> } }

ApplyTemplates == ApplyWellFormed \cup ApplyMissingKey

\* The logs already folded when the harness starts: none, and a document with
\* a cell that has an output.
ApplySeeds ==
    { <<>>,
      << [event_type |-> "DocumentCreated", payload |-> [title |-> JStr("T")]],
         [event_type |-> "CellCreated",
          payload |-> [cell_id |-> JStr("c2"), cell_type |-> JStr("markdown")]],
         [event_type |-> "CellOutputCreated",
          payload |-> [output_id |-> JStr("o2"), cell_id |-> JStr("c2"),
                       output_type |-> JStr("terminal")]] >> }

\* The k-th event of the aggregate's log, one second after the one before.
EventOf(tpl, k) == Event(k, tpl.event_type, ProjAggregate, tpl.payload, k, k)

\* One event folded into the state: kept on Ok, dropped with the error
\* otherwise.  `created` and `extant` remember which documents earlier events
\* created and which outputs found their cell in state when they were created.
ApplyStep(m, tpl) ==
    LET event == EventOf(tpl, m.n + 1)
        r == apply_event(m.state, event)
        output_id == as_str(Get(event.payload, "output_id"))
        cell_id == as_str(Get(event.payload, "cell_id"))
    IN [state |-> IF r.ok THEN r.state ELSE m.state,
        before |-> m.state,
        event |-> event,
        result |-> IF r.ok THEN EOk ELSE r.err,
        n |-> m.n + 1,
        seeded |-> m.seeded,
        created |-> IF r.ok /\ event.event_type = "DocumentCreated"
                    THEN m.created \cup {event.aggregate_id} ELSE m.created,
        extant |-> IF r.ok /\ event.event_type = "CellOutputCreated"
                   THEN IF cell_id.v \in DOMAIN m.state.cells
                        THEN m.extant \cup {output_id.v}
                        ELSE m.extant \ {output_id.v}
                   ELSE m.extant]

RECURSIVE Fold(_, _)
Fold(m, tpls) ==
    IF tpls = <<>> THEN m ELSE Fold(ApplyStep(m, Head(tpls)), Tail(tpls))

ApplyInit ==
    /\ \E seed \in ApplySeeds : mat = [Fold(NoApply, seed) EXCEPT !.seeded = Len(seed)]
    /\ ListingIdle
    /\ ClientIdle
    /\ frac = FracIdle
    /\ StoreIdle
    /\ ProjIdle
    /\ ServerIdle

Apply ==
    /\ mat.n < mat.seeded + MaxApplied
    /\ \E tpl \in ApplyTemplates : mat' = ApplyStep(mat, tpl)
    /\ UNCHANGED notmat

ApplyNext == Apply

SpecApply == ApplyInit /\ [][ApplyNext]_vars

\* The cell a CellDeleted event names.
DeletedCell(event) == as_str(Get(event.payload, "cell_id")).v

\* C13: after apply_event applied CellDeleted with cell_id c, the state has no
\* cell c and no output whose cell_id is c; every other cell and every output
\* of another cell is as it was, and nothing was added.
C13_CellDeletedCascades ==
    (mat.result = EOk /\ mat.event.event_type = "CellDeleted")
        => LET c == DeletedCell(mat.event) IN
           /\ c \notin DOMAIN mat.state.cells
           /\ \A o \in DOMAIN mat.state.outputs : mat.state.outputs[o].cell_id # c
           /\ DOMAIN mat.state.cells = DOMAIN mat.before.cells \ {c}
           /\ \A k \in DOMAIN mat.state.cells : mat.state.cells[k] = mat.before.cells[k]
           /\ DOMAIN mat.state.outputs =
                 {o \in DOMAIN mat.before.outputs : mat.before.outputs[o].cell_id # c}
           /\ \A o \in DOMAIN mat.state.outputs :
                 mat.state.outputs[o] = mat.before.outputs[o]

\* Cell c1 with an output is deleted while cell c2 and its output exist.
C13_Witness ==
    /\ mat.result = EOk
    /\ mat.event.event_type = "CellDeleted"
    /\ DeletedCell(mat.event) \in DOMAIN mat.before.cells
    /\ \E o \in DOMAIN mat.before.outputs :
          mat.before.outputs[o].cell_id = DeletedCell(mat.event)
    /\ \E k \in DOMAIN mat.state.cells : k # DeletedCell(mat.event)
    /\ \E o \in DOMAIN mat.state.outputs :
          mat.state.outputs[o].cell_id # DeletedCell(mat.event)

(***************************************************************************)
(* Harness for rebuild_from_events and apply_new_events with batches: the  *)
(* log of one aggregate grows; projection `inc` is fed the unfed events    *)
(* one at a time or all at once, projection `reb` is rebuilt from the log  *)
(* over whatever it held, and apply_event is called directly with an      *)
(* event of a kind the projection skips.                                   *)
(***************************************************************************)
LogTimes == 1..MaxTime

\* Events the materializer applies, one it rejects (unknown cell_type) and one
\* of a kind it does not handle.
LogTemplates ==
    { [event_type |-> "DocumentCreated", payload |-> [title |-> JStr("T")]],
      [event_type |-> "CellCreated",
       payload |-> [cell_id |-> JStr("c1"), cell_type |-> JStr("code")]],
      [event_type |-> "CellCreated",
       payload |-> [cell_id |-> JStr("c2"), cell_type |-> JStr("bogus")]],
      [event_type |-> "CommentAdded", payload |-> <<>>] }

\* An event with the next version and a fresh id is appended to the log.
LogAppend ==
    /\ Len(store.events) < MaxLog
    /\ \E tpl \in LogTemplates, t \in LogTimes :
          LET event == Event(Len(store.events) + 1, tpl.event_type, ProjAggregate,
                             tpl.payload, t,
                             get_latest_version(store, ProjAggregate) + 1)
              r == append_event(store, event)
          IN /\ r.result = EOk
             /\ store' = r.store
             /\ call' = [event |-> event, result |-> r.result]
    /\ UNCHANGED <<inc, fed, reb, notproj>>

\* Every event not yet fed is given to apply_new_events in one batch.
ProjApplyBatch ==
    /\ fed + 1 < Len(get_events(store, ProjAggregate))
    /\ LET events == get_events(store, ProjAggregate) IN
       /\ inc' = apply_new_events(inc, SubSeq(events, fed + 1, Len(events))).projection
       /\ fed' = Len(events)
    /\ UNCHANGED <<store, call, reb, notproj>>

\* apply_event called on the state of `inc` with the newest event of the log,
\* when that event is of a kind the projection would skip.
ApplyUnhandled ==
    /\ store.events # <<>>
    /\ ~handles_event_type(Last(get_events(store, ProjAggregate)).event_type)
    /\ LET event == Last(get_events(store, ProjAggregate))
           r == apply_event(inc.state, event)
       IN mat' = [mat EXCEPT !.state = IF r.ok THEN r.state ELSE inc.state,
                             !.before = inc.state,
                             !.event = event,
                             !.result = IF r.ok THEN EOk ELSE r.err]
    /\ UNCHANGED notmat

LogNext ==
    \/ LogAppend
    \/ ProjApplyNew
    \/ ProjApplyBatch
    \/ ProjRebuild
    \/ ApplyUnhandled

SpecRebuild == ProjInit /\ [][LogNext]_vars

\* An event of one of the ten kinds apply_event has a branch for.
OfKnownKind(event) == event.event_type \in HandledEventTypes

\* The log with the events of other kinds taken out.
without_unknown(events) == SelectSeq(events, OfKnownKind)

SameContent(a, b) ==
    /\ a.documents = b.documents
    /\ a.cells = b.cells
    /\ a.outputs = b.outputs

\* C14: apply_event on an event of a kind it has no branch for returns Ok with
\* a state equal to its input except for last_processed_timestamp; and
\* rebuild_from_events and apply_new_events give the same result and the same
\* documents, cells and outputs on a log as on that log with the events of
\* unknown kinds removed.
C14_UnknownKindsInert ==
    LET events == get_events(store, ProjAggregate)
        unfed == SubSeq(events, fed + 1, Len(events))
        rebuilt == rebuild_from_events(reb.projection, without_unknown(events))
        fed_all == apply_new_events(inc, unfed)
        fed_known == apply_new_events(inc, without_unknown(unfed))
    IN /\ (mat.result.kind # "none" /\ ~OfKnownKind(mat.event))
            => /\ mat.result = EOk
               /\ mat.state = [mat.before EXCEPT
                                  !.last_processed_timestamp = mat.event.timestamp]
       /\ (reb.called /\ reb.n = Len(events))
            => /\ rebuilt.result = reb.result
               /\ SameContent(rebuilt.projection.state, reb.projection.state)
       /\ fed_all.result = fed_known.result
       /\ SameContent(fed_all.projection.state, fed_known.projection.state)

\* The log is an event of an unknown kind followed by DocumentCreated; the
\* unknown event was given to apply_event directly, and a rebuild of the whole
\* log produced the document.
C14_Witness ==
    LET events == get_events(store, ProjAggregate) IN
    /\ Len(events) = 2
    /\ ~OfKnownKind(events[1])
    /\ events[2].event_type = "DocumentCreated"
    /\ mat.result = EOk
    /\ mat.event = events[1]
    /\ reb.called /\ reb.n = 2 /\ reb.result = EOk
    /\ ProjAggregate \in DOMAIN reb.projection.state.documents
    /\ fed = 0

\* `reb` was last rebuilt from the log as it is now.
RebuiltFromLog == reb.called /\ reb.n = Len(get_events(store, ProjAggregate))

\* C15 as stated: `reb` and `inc`, two projections holding whatever they held,
\* are each rebuilt from the same log; they hold equal states afterwards.
C15_RebuildsAgree ==
    RebuiltFromLog
        => rebuild_from_events(inc, get_events(store, ProjAggregate)).projection.state
              = reb.projection.state

\* C15 amended: two projections rebuilt from the same log get the same result;
\* when it is Ok they hold equal states whatever they held before, and when it
\* is an error each holds the state it held before.
C15_RebuildsAgreeOnSuccess ==
    RebuiltFromLog
        => LET second == rebuild_from_events(inc, get_events(store, ProjAggregate)) IN
           /\ second.result = reb.result
           /\ reb.result = EOk => second.projection.state = reb.projection.state
           /\ reb.result # EOk => second.projection = inc

\* A successful rebuild of a two-event log, while the other projection holds
\* a different, non-initial state.
C15_Witness ==
    /\ RebuiltFromLog
    /\ reb.n = 2
    /\ reb.result = EOk
    /\ inc.state # initial_state
    /\ inc.state # reb.projection.state

\* The state rebuild_from_events reaches on the first k events, from a new
\* projection.
PrefixRebuild(events, k) == rebuild_from_events(NewProjection, SubSeq(events, 1, k))

\* apply_event fails for some handled event of the log, on the state the
\* events before it fold to.
SomeApplyFails(events) ==
    \E i \in 1..Len(events) :
        /\ PrefixRebuild(events, i - 1).result = EOk
        /\ handles_event_type(events[i].event_type)
        /\ ~apply_event(PrefixRebuild(events, i - 1).projection.state, events[i]).ok

\* C18: a rebuild_from_events call returns an error exactly when apply_event
\* fails for some handled event, and then leaves the projection as it was; on
\* success the state is the one a new projection reaches, built from the
\* state of the log without its last event by applying that event (or by
\* skipping it if its kind is unhandled).
C18_RebuildAllOrNothing ==
    [][reb' # reb
        => LET events == get_events(store, ProjAggregate)
               n == Len(events)
           IN /\ (reb'.result # EOk) <=> SomeApplyFails(events)
              /\ reb'.result # EOk => reb'.projection = reb.projection
              /\ reb'.result = EOk
                    => /\ reb'.projection.state = PrefixRebuild(events, n).projection.state
                       /\ n = 0 => reb'.projection.state = initial_state
                       /\ (n > 0 /\ handles_event_type(events[n].event_type))
                             => reb'.projection.state =
                                   apply_event(PrefixRebuild(events, n - 1).projection.state,
                                               events[n]).state
                       /\ (n > 0 /\ ~handles_event_type(events[n].event_type))
                             => reb'.projection.state =
                                   PrefixRebuild(events, n - 1).projection.state]_vars

\* A rebuild failed on the second event and the projection still holds the
\* state of an earlier successful rebuild.
C18_Witness ==
    /\ RebuiltFromLog
    /\ reb.n = 2
    /\ reb.result # EOk
    /\ reb.projection.state # initial_state

\* The events given to apply_new_events by the step that moves `fed`.
FedBatch == SubSeq(get_events(store, ProjAggregate), fed + 1, fed')

\* C16: when an apply_new_events call returns an error, whatever the length of
\* its batch, the projection's state after the call is the state before it.
C16_FailedApplyNewKeepsState ==
    [][fed' > fed
        => (apply_new_events(inc, FedBatch).result # EOk => inc'.state = inc.state)]_vars

\* Request r appended its event and apply_new_events returned an error for it.
ProjectionFailed(r) == req[r].kind = "submit" /\ req[r].applied.kind = "ValidationError"

\* Request r appends its event in this step.
Appends(r) == req[r].pc = "lock_projections" /\ req'[r].pc = "broadcast"

\* C17: when apply_new_events fails for a submitted event, the event is in the
\* store's log from then on, the append raised latest_version by one to the
\* event's version, the request answers 200 with the event's id and version,
\* and the next submit to the store is given the following version.
C17_ProjectionFailureKeepsAppend ==
    /\ [](\A r \in Tasks :
            ProjectionFailed(r)
               => /\ InLog(req[r].store, req[r].event)
                  /\ req[r].pc = "done"
                        => req[r].response =
                              SubmitEventResponse(req[r].event.id, req[r].event.version))
    /\ [][\A r \in Tasks :
            /\ (Appends(r) /\ req'[r].applied.kind = "ValidationError")
                  => /\ get_latest_version(stores'[req[r].store], req[r].store)
                          = get_latest_version(stores[req[r].store], req[r].store) + 1
                     /\ req'[r].event.version
                          = get_latest_version(stores'[req[r].store], req[r].store)
            /\ ProjectionFailed(r)
                  => \A q \in Tasks \ {r} :
                        (Appends(q) /\ req[q].store = req[r].store)
                           => req'[q].event.version = req[r].event.version + 1]_vars

\* A submit whose event the projection rejected has answered, and a later
\* submit to the same store has answered with the following version.
C17_Witness ==
    \E r \in Tasks, q \in Tasks :
        /\ ProjectionFailed(r)
        /\ req[r].pc = "done"
        /\ req[r].response = SubmitEventResponse(req[r].event.id, req[r].event.version)
        /\ req[q].kind = "submit" /\ req[q].pc = "done"
        /\ req[q].store = req[r].store
        /\ req[q].response.status = 200
        /\ req[q].event.version = req[r].event.version + 1

\* The event's payload lacks a key its kind requires.
LacksRequiredKey(event) ==
    \E k \in RequiredKeys(event.event_type) : k \notin DOMAIN event.payload

\* C19: apply_event on an event of a handled kind whose payload lacks a key
\* the kind requires returns a ValidationError, and the state, including
\* last_processed_timestamp, stays as it was.
C19_MissingKeyRejected ==
    (mat.result.kind # "none" /\ LacksRequiredKey(mat.event))
        => /\ mat.result.kind = "ValidationError"
           /\ mat.state = mat.before

\* C20: in every state reached by folding a log, each cell's document_id is a
\* document an earlier event of the log created, and each output was created
\* while the cell its cell_id names was in state.
C20_ReferencesResolve ==
    /\ \A c \in DOMAIN mat.state.cells : mat.state.cells[c].document_id \in mat.created
    /\ \A o \in DOMAIN mat.state.outputs : o \in mat.extant

(***************************************************************************)
(* Harness for the cell order: CellCreated and CellMoved events are folded *)
(* into a state, then get_document_cells is called on it.                  *)
(***************************************************************************)
MaxCellEvents == 4    \* events folded before the cells are listed

IndexA0 == initial
IndexA1 == <<97, 49>>
IndexA2 == <<97, 50>>

CreateCell(document_id, cell_id, index) ==
    [event_type |-> "CellCreated", aggregate_id |-> document_id,
     payload |-> [cell_id |-> JStr(cell_id), cell_type |-> JStr("code"),
                  fractional_index |-> JStr(index)]]

CreateCellWithoutIndex(document_id, cell_id) ==
    [event_type |-> "CellCreated", aggregate_id |-> document_id,
     payload |-> [cell_id |-> JStr(cell_id), cell_type |-> JStr("code")]]

MoveCell(document_id, cell_id, index) ==
    [event_type |-> "CellMoved", aggregate_id |-> document_id,
     payload |-> [cell_id |-> JStr(cell_id), fractional_index |-> JStr(index)]]

\* Three indexed cells and two without index in document "x", a cell in
\* document "y", the third cell moved between the first two, and the second
\* moved onto the index of the first.
CellTemplates ==
    { CreateCell("x", "c1", IndexA0),
      CreateCell("x", "c2", IndexA1),
      CreateCell("x", "c3", IndexA2),
      CreateCellWithoutIndex("x", "c4"),
      CreateCellWithoutIndex("x", "c5"),
      CreateCell("y", "c6", IndexA0),
      MoveCell("x", "c3", between(IndexA0, IndexA1).val),
      MoveCell("x", "c2", IndexA0) }

CellsInit ==
    /\ mat = NoApply
    /\ listing = NoListing
    /\ ClientIdle
    /\ frac = FracIdle
    /\ StoreIdle
    /\ ProjIdle
    /\ ServerIdle

\* The index the event gives to a cell: `assigned` maps each cell created so
\* far to its document and the index its CellCreated or latest CellMoved
\* carried.
Assign(assigned, event) ==
    LET cell_id == as_str(Get(event.payload, "cell_id")).v
        index == as_str(Get(event.payload, "fractional_index"))
    IN IF event.event_type = "CellCreated"
       THEN MapInsert(assigned, cell_id, [document_id |-> event.aggregate_id, index |-> index])
       ELSE IF event.event_type = "CellMoved" /\ cell_id \in DOMAIN assigned
       THEN [assigned EXCEPT ![cell_id].index = index]
       ELSE assigned

\* The next event is applied to the state.
CellsApply ==
    /\ ~listing.called
    /\ mat.n < MaxCellEvents
    /\ \E tpl \in CellTemplates :
          LET event == Event(mat.n + 1, tpl.event_type, tpl.aggregate_id, tpl.payload,
                             mat.n + 1, mat.n + 1)
              r == apply_event(mat.state, event)
          IN /\ r.ok
             /\ mat' = [mat EXCEPT !.state = r.state, !.before = mat.state,
                                   !.event = event, !.result = EOk, !.n = mat.n + 1]
             /\ listing' = [listing EXCEPT !.assigned = Assign(listing.assigned, event)]
    /\ UNCHANGED notcells

\* get_document_cells(document_id), the map yielding its cells in some order.
ListCells ==
    /\ ~listing.called
    /\ \E document_id \in {"x", "y"}, values \in IterationOrders(mat.state.cells) :
          listing' = [listing EXCEPT
                         !.called = TRUE,
                         !.document_id = document_id,
                         !.values = values,
                         !.cells = get_document_cells(mat.state, document_id, values)]
    /\ UNCHANGED mat
    /\ UNCHANGED notcells

CellsNext ==
    \/ CellsApply
    \/ ListCells

SpecCells == CellsInit /\ [][CellsNext]_vars

\* Cell a may stand before cell b in the document's cell order: by index,
\* indexed cells before the others, ties by created_at.
MayPrecede(a, b) ==
    CASE a.fractional_index.some /\ b.fractional_index.some ->
            \/ StrLess(a.fractional_index.v, b.fractional_index.v)
            \/ /\ a.fractional_index.v = b.fractional_index.v
               /\ a.created_at <= b.created_at
      [] a.fractional_index.some /\ ~b.fractional_index.some -> TRUE
      [] ~a.fractional_index.some /\ b.fractional_index.some -> FALSE
      [] OTHER -> a.created_at <= b.created_at

\* C21: get_document_cells(d) returns exactly the cells whose document_id is
\* d, each once, ordered by fractional_index ascending, the cells without
\* index last, and cells that tie on the index (both absent or both the same
\* string) by created_at ascending.
C21_CellsListedInOrder ==
    listing.called
        => /\ {listing.cells[i] : i \in DOMAIN listing.cells}
                = {mat.state.cells[c] : c \in {k \in DOMAIN mat.state.cells :
                        mat.state.cells[k].document_id = listing.document_id}}
           /\ \A i, j \in DOMAIN listing.cells :
                 i < j => /\ listing.cells[i] # listing.cells[j]
                          /\ MayPrecede(listing.cells[i], listing.cells[j])

\* The cells the events gave to document d.
AssignedTo(d) == {c \in DOMAIN listing.assigned : listing.assigned[c].document_id = d}

\* The events left the cells of document d with pairwise distinct indices.
DistinctIndices(d) ==
    /\ \A c \in AssignedTo(d) : listing.assigned[c].index.some
    /\ \A c1, c2 \in AssignedTo(d) :
          listing.assigned[c1].index = listing.assigned[c2].index => c1 = c2

\* C22: after CellCreated and CellMoved events that leave the cells of a
\* document with pairwise distinct indices, get_document_cells lists exactly
\* those cells, in ascending order of the index each was given last.
C22_OrderFollowsLatestIndex ==
    (listing.called /\ DistinctIndices(listing.document_id))
        => /\ {listing.cells[i].id : i \in DOMAIN listing.cells}
                = AssignedTo(listing.document_id)
           /\ \A i, j \in DOMAIN listing.cells :
                 i < j => StrLess(listing.assigned[listing.cells[i].id].index.v,
                                  listing.assigned[listing.cells[j].id].index.v)

\* Cells created at a0, a1, a2; the third moved to between(a0, a1) is listed
\* second.
C22_Witness ==
    /\ listing.called
    /\ listing.document_id = "x"
    /\ mat.event.event_type = "CellMoved"
    /\ Len(listing.cells) = 3
    /\ listing.cells[1].id = "c1" /\ listing.cells[1].fractional_index = Some(IndexA0)
    /\ listing.cells[2].id = "c3"
    /\ listing.cells[2].fractional_index = Some(between(IndexA0, IndexA1).val)
    /\ listing.cells[3].id = "c2" /\ listing.cells[3].fractional_index = Some(IndexA1)

\* C23: apply_new_events given one event applies it when its timestamp is
\* above last_processed_timestamp and its kind is handled (the state becomes
\* what apply_event returns, or stays on an error) and leaves the state alone
\* otherwise; and after any batch it applied successfully, the same batch
\* given again is accepted and changes nothing.
C23_ApplyNewGatedAndIdempotent ==
    [][fed' > fed
        => /\ fed' = fed + 1
                => LET event == FedBatch[1]
                       r == apply_event(inc.state, event)
                   IN IF /\ event.timestamp > inc.state.last_processed_timestamp
                         /\ handles_event_type(event.event_type)
                      THEN inc'.state = IF r.ok THEN r.state ELSE inc.state
                      ELSE inc' = inc
           /\ apply_new_events(inc, FedBatch).result = EOk
                => /\ apply_new_events(inc', FedBatch).result = EOk
                   /\ apply_new_events(inc', FedBatch).projection = inc']_vars

\* Two events were fed and both were applied.
C23_Witness ==
    /\ fed = 2
    /\ inc.state.documents # EmptyMap
    /\ inc.state.cells # EmptyMap
    /\ inc.state.last_processed_timestamp = 2

\* The versions of the stored events of aggregate a.
StoredVersions(a) ==
    {store.events[i].version :
        i \in {j \in 1..Len(store.events) : store.events[j].aggregate_id = a}}

\* C24: get_latest_version(a) is 0 when no event of a is stored, otherwise the
\* highest version among the stored events of a, which is also their number;
\* a successful append raises it by exactly 1 for the event's aggregate and
\* leaves it alone for every other aggregate.
C24_LatestVersionIsHighest ==
    /\ [](\A a \in Aggregates :
            LET latest == get_latest_version(store, a) IN
            IF StoredVersions(a) = {}
            THEN latest = 0
            ELSE /\ latest \in StoredVersions(a)
                 /\ \A v \in StoredVersions(a) : v <= latest
                 /\ latest = Cardinality({i \in 1..Len(store.events) :
                                            store.events[i].aggregate_id = a}))
    /\ [][call'.result = EOk /\ Len(store'.events) > Len(store.events)
            => \A a \in Aggregates :
                  get_latest_version(store', a) =
                     IF a = call'.event.aggregate_id
                     THEN get_latest_version(store, a) + 1
                     ELSE get_latest_version(store, a)]_vars

\* The latest append went to "y" while "x" holds two events.
C24_Witness ==
    /\ call.result = EOk
    /\ call.event.aggregate_id = "y"
    /\ get_latest_version(store, "y") = 1
    /\ get_latest_version(store, "x") = 2
    /\ Len(store.events) = 3

\* The request of task r names a store and its call of ensure_store_exists has
\* returned.
Ensured(r) ==
    /\ req[r].kind \in {"submit", "get", "info"}
    /\ req[r].pc \notin {"idle", "ensure_stores", "ensure_projections"}

\* C25: in every state the ids that have a store are the ids that have a
\* projection; once the ensure_store_exists of a submit, list-events or
\* store-info request has returned, the id it names has both; an id enters the
\* maps with a store that has no events and latest version 0 and with a fresh
\* projection, and it enters only through such a request (list_stores adds
\* nothing); no id ever leaves either map.
C25_StoreAndProjectionTogether ==
    /\ [](/\ DOMAIN stores = DOMAIN projections
          /\ \A r \in Tasks :
                Ensured(r) => /\ req[r].store \in DOMAIN stores
                              /\ req[r].store \in DOMAIN projections)
    /\ [][/\ DOMAIN stores \subseteq DOMAIN stores'
          /\ DOMAIN projections \subseteq DOMAIN projections'
          /\ \A s \in DOMAIN stores' \ DOMAIN stores :
                /\ get_events(stores'[s], s) = <<>>
                /\ stores'[s].events = <<>>
                /\ get_latest_version(stores'[s], s) = 0
                /\ projections'[s] = NewProjection
                /\ \E r \in Tasks : /\ req[r].pc = "ensure_projections"
                                     /\ req[r].store = s
                                     /\ Ensured(r)']_vars

\* A store-info request for "y" found the store it had just created, empty,
\* after a submit had created "x" and appended to it.
C25_Witness ==
    /\ DOMAIN stores = {"x", "y"}
    /\ DOMAIN projections = {"x", "y"}
    /\ req["r2"].kind = "info" /\ req["r2"].pc = "done" /\ req["r2"].store = "y"
    /\ req["r2"].response.event_count = 0
    /\ req["r2"].response.latest_version = 0
    /\ stores["y"] = NewStore
    /\ Len(stores["x"].events) = 1

(***************************************************************************)
(* Harness for the list-events handler: one client posts events to store   *)
(* "x" and reads them back, one request at a time.                         *)
(***************************************************************************)
MaxStored == 3     \* events posted before the reads

\* The query parameters tried: absent, or a small number.
QueryNumbers == {OptNone, Some(0), Some(1), Some(2)}

QueryQueries ==
    {GetEventsQuery(since, limit, offset) :
        since \in QueryNumbers, limit \in QueryNumbers, offset \in QueryNumbers}

QueryInit ==
    /\ ServerIdle
    /\ frac = FracIdle
    /\ StoreIdle
    /\ ProjIdle
    /\ MatIdle
    /\ ListingIdle
    /\ ClientIdle

\* submit_event run from start to end with no other task in between and no
\* connection subscribed: ensure_store_exists, then the locked part. The clock
\* has advanced by one or two nanoseconds since the previous event.
QuerySubmit ==
    /\ IF "x" \in DOMAIN stores THEN Len(stores["x"].events) < MaxStored ELSE TRUE
    /\ \E step \in {1, 2} :
          LET ensured_stores == ensure_store_exists(stores, "x", NewStore)
              ensured_projections == ensure_store_exists(projections, "x", NewProjection)
              events == ensured_stores["x"].events
              id == IF events = <<>> THEN step ELSE events[Len(events)].id + step
              body == [event_type |-> "CommentAdded", payload |-> <<>>]
              out == submit_event_locked(ensured_stores["x"], ensured_projections["x"],
                                         "x", body, id, TimestampOf(id))
          IN /\ stores' = [ensured_stores EXCEPT !["x"] = out.event_store]
             /\ projections' = [ensured_projections EXCEPT !["x"] = out.projection]
             /\ req' = [req EXCEPT !["r1"] =
                           [IdleReq EXCEPT !.kind = "submit", !.pc = "done",
                                           !.store = "x", !.body = body,
                                           !.event = out.event, !.applied = out.applied,
                                           !.response =
                                               IF out.ok
                                               THEN SubmitEventResponse(out.event.id,
                                                                        out.event.version)
                                               ELSE out.response]]
    /\ UNCHANGED <<wlock, connections, conn, hist>>
    /\ UNCHANGED notserver

\* get_events run from start to end with no other task in between.
QueryGet ==
    /\ \E query \in QueryQueries :
          LET ensured_stores == ensure_store_exists(stores, "x", NewStore)
          IN /\ stores' = ensured_stores
             /\ projections' = ensure_store_exists(projections, "x", NewProjection)
             /\ req' = [req EXCEPT !["r2"] =
                           [IdleReq EXCEPT !.kind = "get", !.pc = "done",
                                           !.store = "x", !.query = query,
                                           !.response =
                                               get_events_read(ensured_stores["x"],
                                                               "x", query)]]
    /\ UNCHANGED <<wlock, connections, conn, hist>>
    /\ UNCHANGED notserver

QueryNext ==
    \/ QuerySubmit
    \/ QueryGet

SpecQuery == QueryInit /\ [][QueryNext]_vars

\* The events of a sequence from position from + 1 on.
Skipped(events, from) == SubSeq(events, from + 1, Len(events))

\* The first n events of a sequence, or all of it when it is shorter.
Kept(events, n) == SubSeq(events, 1, IF n < Len(events) THEN n ELSE Len(events))

LaterThan(events, since) ==
    LET Later(e) == e.timestamp > since IN SelectSeq(events, Later)

\* The answer to a query over a log that is in version order: the timestamp
\* filter when since_timestamp is given, then offset when it is given, then
\* limit when it is given.
Answer(events, query) ==
    LET retained == IF query.since_timestamp.some
                    THEN LaterThan(events, query.since_timestamp.v) ELSE events
        skipped == IF query.offset.some THEN Skipped(retained, query.offset.v)
                   ELSE retained
        kept == IF query.limit.some THEN Kept(skipped, query.limit.v) ELSE skipped
    IN [events |-> kept, total_count |-> Len(retained)]

InVersionOrder(events) ==
    \A i, j \in 1..Len(events) : i < j => events[i].version < events[j].version

\* A step in which a GET events request is answered.
Answers == req'["r2"] # req["r2"] /\ req'["r2"].kind = "get" /\ req'["r2"].pc = "done"

\* C26: the response of GET events holds the store's events in version
\* order, restricted to timestamp > since_timestamp when that is given, then
\* with offset events skipped when offset is given and at most limit events
\* kept when limit is given; total_count counts the events after the timestamp
\* filter and before pagination.
C26_GetEventsFiltersAndPaginates ==
    [][Answers
        => LET response == req'["r2"].response
               expected == Answer(stores'["x"].events, req'["r2"].query)
           IN /\ InVersionOrder(stores'["x"].events)
              /\ response.events = expected.events
              /\ response.total_count = expected.total_count]_vars

\* The same with limit and offset applied only when both are given.
C26_PaginatesWhenBothGiven ==
    [][Answers
        => LET response == req'["r2"].response
               query == req'["r2"].query
               both == query.limit.some /\ query.offset.some
               expected == Answer(stores'["x"].events,
                                  [query EXCEPT !.limit = IF both THEN @ ELSE OptNone,
                                                !.offset = IF both THEN @ ELSE OptNone])
           IN /\ InVersionOrder(stores'["x"].events)
              /\ response.events = expected.events
              /\ response.total_count = expected.total_count]_vars

\* What a client can observe of store s: its log, its latest version and its
\* projection; a store that does not exist yet shows as a new one.
LogOf(m, s) == IF s \in DOMAIN m THEN m[s].events ELSE <<>>

LatestOf(m, s) == IF s \in DOMAIN m THEN get_latest_version(m[s], s) ELSE 0

ProjectionOf(m, s) == IF s \in DOMAIN m THEN m[s] ELSE NewProjection

\* Task r takes a step of a POST that is not inside broadcast_event, which
\* only a POST that has appended its event reaches.
StepsOutsideBroadcast(r) ==
    /\ req'[r] # req[r]
    /\ req'[r].kind = "submit"
    /\ req[r].pc \notin {"broadcast", "cleanup"}
    /\ req'[r].pc \notin {"broadcast", "cleanup"}

\* The POST of task r ends in this step.
Ends(r) == req'[r].kind = "submit" /\ req[r].pc # "done" /\ req'[r].pc = "done"

BlankRequest(rq) == trim_is_empty(rq.body.event_type) \/ trim_is_empty(rq.store)

\* C27: no step of a POST that fails changes any store's log, latest version
\* or projection, any channel or any socket; a POST with a blank event_type
\* or a blank store id fails with 400 VALIDATION_ERROR, a failure of
\* append_event with DuplicateEventId gives 409 DUPLICATE_EVENT and one with
\* InvalidVersion gives 409 VERSION_CONFLICT.
C27_FailedSubmitChangesNothing ==
    [][\A r \in Tasks :
          /\ StepsOutsideBroadcast(r)
                => /\ \A s \in PostStores :
                         /\ LogOf(stores', s) = LogOf(stores, s)
                         /\ LatestOf(stores', s) = LatestOf(stores, s)
                         /\ ProjectionOf(projections', s) = ProjectionOf(projections, s)
                   /\ conn' = conn
                   /\ connections' = connections
          /\ (Ends(r) /\ BlankRequest(req'[r]))
                => /\ req'[r].response.status = 400
                   /\ req'[r].response.code = "VALIDATION_ERROR"
                   /\ req'[r].response.error.kind
                         \in {"InvalidEventType", "InvalidAggregateId"}
                   /\ req[r].pc = "lock_projections"
          /\ (Ends(r) /\ req'[r].response.status # 200)
                => LET response == req'[r].response IN
                   /\ StepsOutsideBroadcast(r)
                   /\ response.status \in {400, 409}
                   /\ response.status = 400 <=> BlankRequest(req'[r])
                   /\ response.status = 409
                         => \/ /\ response.error.kind = "DuplicateEventId"
                               /\ response.code = "DUPLICATE_EVENT"
                            \/ /\ response.error.kind = "InvalidVersion"
                               /\ response.code = "VERSION_CONFLICT"]_vars

\* One POST failed on a duplicate id after another had appended to the same
\* store; a subscriber of the store was handed only the appended event.
C27_Witness ==
    /\ \E r \in Tasks :
          /\ req[r].pc = "done" /\ req[r].kind = "submit"
          /\ req[r].response.status = 409
          /\ req[r].response.code = "DUPLICATE_EVENT"
          /\ Len(stores[req[r].store].events) = 1
          /\ \E c \in Conns :
                /\ conn[c].store = req[r].store
                /\ Len(conn[c].socket) = 2
                /\ conn[c].ch.queue = <<>>
                /\ conn[c].pc = "running"

\* A POST to a blank store id was refused and left the store it had created
\* empty.
BlankStoreRefused ==
    \E r \in Tasks :
        /\ req[r].pc = "done" /\ req[r].kind = "submit" /\ req[r].store = " "
        /\ req[r].response.status = 400
        /\ req[r].response.error.kind = "InvalidAggregateId"
        /\ stores[" "] = NewStore

(***************************************************************************)
(* The browser client: an EventBookClient whose server_url names store "x" *)
(* of a server that other clients post to.                                 *)
(***************************************************************************)
MaxSubmissions == 2    \* submissions made to the client, and to the server

\* The store the client's server_url ends in.
ClientStore == "x"

\* The payload text handed to submit_event: the serialisation of a JSON value,
\* or text that is not JSON.
Text(value) == [json |-> TRUE, value |-> value]

Malformed == [json |-> FALSE]

\* serde_json::from_str(&payload)
from_str(text) == IF text.json THEN Some(text.value) ELSE OptNone

\* EventBookClient::submit_event; now is what Date::now() reads, in
\* milliseconds, and the id is "event-" followed by that number.
client_submit_event(c, event_type, aggregate_id, payload, now) ==
    LET payload_value == from_str(payload)
        current_version == get_latest_version(c.local_store, aggregate_id)
        next_version == current_version + 1
        event == Event(now, event_type, aggregate_id, payload_value.v, now, next_version)
        appended == append_event(c.local_store, event)
        applied == apply_new_events(c.document_projection, <<event>>)
    IN IF ~payload_value.some
       THEN [ok |-> FALSE, err |-> "Invalid JSON payload",
             local_store |-> c.local_store,
             document_projection |-> c.document_projection]
       ELSE IF appended.result.kind # "Ok"
       THEN [ok |-> FALSE, err |-> "Store error",
             local_store |-> c.local_store,
             document_projection |-> c.document_projection]
       ELSE IF applied.result.kind # "Ok"
       THEN [ok |-> FALSE, err |-> "Projection error",
             local_store |-> appended.store,
             document_projection |-> applied.projection]
       ELSE [ok |-> TRUE, event |-> event,
             local_store |-> appended.store,
             document_projection |-> applied.projection]

\* What a submission asks for, and whether it was accepted.
Submission(event_type, aggregate_id, payload, ok) ==
    [event_type |-> event_type, aggregate_id |-> aggregate_id,
     payload |-> payload, ok |-> ok]

\* The payload texts tried on the client: those of the request bodies posted
\* to the server, and one that does not parse.
ClientTexts == {Text(body.payload) : body \in ServerBodies} \cup {Malformed}

ClientInit ==
    /\ ServerIdle
    /\ frac = FracIdle
    /\ StoreIdle
    /\ ProjIdle
    /\ MatIdle
    /\ ListingIdle
    /\ ClientIdle

\* submit_event on the client. Date::now() reads the millisecond of the
\* previous local event or the next one.
ClientSubmit ==
    /\ Len(client.sent) < MaxSubmissions
    /\ \E body \in ServerBodies, text \in ClientTexts, tick \in {0, 1} :
          LET events == client.local_store.events
              now == IF events = <<>> THEN 1 ELSE events[Len(events)].timestamp + tick
              out == client_submit_event(client, body.event_type, ClientStore, text, now)
          IN /\ text = Malformed \/ text = Text(body.payload)
             /\ client' = [client EXCEPT
                              !.local_store = out.local_store,
                              !.document_projection = out.document_projection,
                              !.last = [op |-> "submit_event", ok |-> out.ok],
                              !.sent = Append(@, Submission(body.event_type, ClientStore,
                                                            text, out.ok))]
    /\ UNCHANGED <<stores, projections, req>>
    /\ UNCHANGED notclient

\* POST /stores/x/events from another client, run from start to end with no
\* other task in between and no connection subscribed.
ServerPost ==
    /\ Len(client.posted) < MaxSubmissions
    /\ \E body \in ServerBodies, step \in {1, 2} :
          LET s == ClientStore
              ensured_stores == ensure_store_exists(stores, s, NewStore)
              ensured_projections == ensure_store_exists(projections, s, NewProjection)
              events == ensured_stores[s].events
              id == IF events = <<>> THEN step ELSE events[Len(events)].id + step
              out == submit_event_locked(ensured_stores[s], ensured_projections[s],
                                         s, body, id, TimestampOf(id))
          IN /\ stores' = [ensured_stores EXCEPT ![s] = out.event_store]
             /\ projections' = [ensured_projections EXCEPT ![s] = out.projection]
             /\ req' = [req EXCEPT !["r1"] =
                           [IdleReq EXCEPT !.kind = "submit", !.pc = "done",
                                           !.store = s, !.body = body,
                                           !.event = out.event, !.applied = out.applied,
                                           !.response =
                                               IF out.ok
                                               THEN SubmitEventResponse(out.event.id,
                                                                        out.event.version)
                                               ELSE out.response]]
             /\ client' = [client EXCEPT
                              !.posted = Append(@, Submission(body.event_type, s,
                                                              Text(body.payload), out.ok))]
    /\ UNCHANGED notclient

\* sync_event_log: fetch_events_from_server sends GET {server_url}/events,
\* which the server's get_events answers, or the fetch fails; the future
\* holds only a copy of server_url and resolves to a SyncResult. `fetched` is
\* the Vec<Event> the fetch returned.
ClientSync ==
    /\ \E reached \in BOOLEAN :
          LET ensured_stores == ensure_store_exists(stores, ClientStore, NewStore)
              response == get_events_read(ensured_stores[ClientStore], ClientStore,
                                          NoQuery)
          IN IF reached
             THEN /\ stores' = ensured_stores
                  /\ projections' = ensure_store_exists(projections, ClientStore,
                                                        NewProjection)
                  /\ req' = [req EXCEPT !["r2"] =
                                [IdleReq EXCEPT !.kind = "get", !.pc = "done",
                                                !.store = ClientStore,
                                                !.response = response]]
                  /\ client' = [client EXCEPT
                                   !.last = [op |-> "sync_event_log", success |-> TRUE,
                                             events_pulled |-> Len(response.events),
                                             fetched |-> response.events]]
             ELSE /\ client' = [client EXCEPT
                                   !.last = [op |-> "sync_event_log", success |-> FALSE,
                                             events_pulled |-> 0, fetched |-> <<>>]]
                  /\ UNCHANGED <<stores, projections, req>>
    /\ UNCHANGED notclient

ClientNext ==
    \/ ClientSubmit
    \/ ServerPost
    \/ ClientSync

SpecClient == ClientInit /\ [][ClientNext]_vars

\* C28: when the client's latest call is a sync that succeeded, its local
\* store holds exactly the events the fetch returned, in that order, and its
\* projection is the one rebuild_from_events makes of them.
C28_SyncMirrorsServer ==
    (client.last.op = "sync_event_log" /\ client.last.success)
        => LET rebuilt == rebuild_from_events(NewProjection, client.last.fetched)
           IN /\ client.local_store.events = client.last.fetched
              /\ rebuilt.result = EOk => client.document_projection = rebuilt.projection

\* A successful sync changes neither the local store nor the local projection.
C28_SyncLeavesClientAlone ==
    [][(client'.last.op = "sync_event_log" /\ client'.last # client.last)
          => /\ client'.local_store = client.local_store
             /\ client'.document_projection = client.document_projection]_vars

\* What a sequence of submissions asked for, and how each one ended.
Asked(submissions) ==
    [i \in 1..Len(submissions) |->
        [event_type |-> submissions[i].event_type,
         aggregate_id |-> submissions[i].aggregate_id,
         payload |-> submissions[i].payload]]

Outcomes(submissions) == [i \in 1..Len(submissions) |-> submissions[i].ok]

\* A log without what the clock put into it: ids and timestamps.
Content(events) ==
    [i \in 1..Len(events) |->
        [event_type |-> events[i].event_type, aggregate_id |-> events[i].aggregate_id,
         payload |-> events[i].payload, version |-> events[i].version]]

\* The documents and cells of a projection state without their timestamps.
Untimed(state) ==
    [documents |-> [d \in DOMAIN state.documents |->
                       [state.documents[d] EXCEPT !.created_at = 0, !.updated_at = 0]],
     cells |-> [c \in DOMAIN state.cells |->
                   [state.cells[c] EXCEPT !.created_at = 0, !.updated_at = 0]]]

\* C29: when the client and the server were given the same sequence of
\* (kind, aggregate_id, payload) submissions, each submission was accepted by
\* both or rejected by both, the two logs hold the same events with the same
\* versions, and the two projections hold the same documents and cells.
C29_LocalSubmitAsServer ==
    Asked(client.sent) = Asked(client.posted)
        => /\ Outcomes(client.sent) = Outcomes(client.posted)
           /\ Content(client.local_store.events) = Content(LogOf(stores, ClientStore))
           /\ Untimed(client.document_projection.state)
                 = Untimed(ProjectionOf(projections, ClientStore).state)

\* The subscriber list of store s; a store without an entry has none.
Subscribers(cs, s) == IF s \in DOMAIN cs THEN cs[s] ELSE <<>>

\* A subscriber list with every occurrence of connection c taken out.
Without(list, c) == LET Other(k) == k # c IN SelectSeq(list, Other)

\* Between two subscriber maps, c was taken out of the list of s and nothing
\* else was touched.
RemovedOnlyFrom(cs, left, s, c) ==
    \A t \in Stores :
        Subscribers(left, t) = IF t = s THEN Without(Subscribers(cs, t), c)
                                         ELSE Subscribers(cs, t)

\* C30: the disconnect of connection c takes c out of every store's list and
\* leaves the other ids of every list as they were, in their order; every
\* unsubscribe(s, c), made for a client's unsubscribe message or by
\* broadcast_event for a connection whose send failed, takes only c out and
\* only out of the list of s; a closed connection is in no list.
C30_DisconnectAndUnsubscribeFrames ==
    /\ [](\A c \in Conns : conn[c].pc = "closed" => ~SenderExists(connections, c))
    /\ [][/\ \A c \in Conns :
                (conn[c].pc = "disconnecting" /\ conn'[c].pc = "closed")
                    => /\ \A s \in Stores :
                             Subscribers(connections', s)
                                = Without(Subscribers(connections, s), c)
                       /\ DOMAIN connections' \subseteq Stores
          /\ \A r \in Tasks :
                (req[r].pc = "cleanup" /\ req'[r] # req[r])
                    => RemovedOnlyFrom(connections, connections', req[r].store,
                                       Head(req[r].disconnected))
          /\ (connections' # connections /\ conn' = conn /\ req' = req)
                => \E c \in Conns, s \in Stores :
                      /\ conn[c].pc = "running"
                      /\ IsSubscribed(connections, s, c)
                      /\ RemovedOnlyFrom(connections, connections', s, c)]_vars

\* Both connections had subscribed to "x"; the first has disconnected and the
\* second is still in the list.
C30_Witness ==
    /\ conn["c1"].pc = "closed"
    /\ conn["c2"].pc = "running"
    /\ conn["c2"].store = "x"
    /\ connections = MapInsert(EmptyMap, "x", <<"c2">>)

(***************************************************************************)
(* A slow subscriber: the server with connection c1 subscribed to "x" from *)
(* the start of the log and its buffer full; both request tasks submit     *)
(* while c1's send_task forwards.                                          *)
(***************************************************************************)
LagInit ==
    /\ LET n == ChannelCapacity IN
          /\ stores = MapInsert(<<>>, "x", BacklogStore("x", n))
          /\ hist = [i \in 1..n |->
                        [task |-> "earlier", store |-> "x", status |-> "ok",
                         id |-> 10 + i, version |-> i]]
          /\ conn = [c \in Conns |->
                        IF c = "c1"
                        THEN [pc |-> "running", store |-> "x",
                              ch |-> [NewChannel EXCEPT
                                         !.queue = [i \in 1..n |->
                                                      WsEvent("x", BacklogEvent("x", i))]],
                              socket |-> <<WsSubscribed("x", c)>>]
                        ELSE NewConn]
    /\ projections = MapInsert(<<>>, "x", NewProjection)
    /\ wlock = NoLocks
    /\ connections = MapInsert(<<>>, "x", <<"c1">>)
    /\ req = [r \in Tasks |-> IdleReq]
    /\ frac = FracIdle
    /\ StoreIdle
    /\ ProjIdle
    /\ MatIdle
    /\ ListingIdle
    /\ ClientIdle

LagNext ==
    \/ \E r \in Tasks : StartSubmit(r)
    \/ \E r \in Tasks : EnsureLockStores(r)
    \/ \E r \in Tasks : EnsureInsert(r)
    \/ \E r \in Tasks : SubmitLockStores(r)
    \/ \E r \in Tasks : SubmitLocked(r)
    \/ \E r \in Tasks : BroadcastSend(r)
    \/ \E r \in Tasks : BroadcastCleanup(r)
    \/ \E c \in Conns : WsForward(c)
    \/ \E c \in Conns : WsRecvError(c)
    \/ \E c \in Conns : WsDisconnect(c)

SpecLag == LagInit /\ [][LagNext]_vars

\* The event messages written to the socket of connection c, in order.
Forwarded(c) ==
    LET IsEvent(m) == m.type = "event" IN SelectSeq(conn[c].socket, IsEvent)

\* Every event message on the socket of c is of c's store, and each carries
\* the version after the one before it.
ForwardedInOrder(c) ==
    LET f == Forwarded(c) IN
    /\ \A i \in 1..Len(f) : f[i].store_id = conn[c].store
    /\ \A i \in 1..(Len(f) - 1) : f[i + 1].event.version = f[i].event.version + 1

ForwardedContiguously == \A c \in Conns : ForwardedInOrder(c)

\* C31: the events forwarded to a subscriber's socket are of its store and
\* carry contiguous, increasing versions, whatever the interleaving of the two
\* submitting tasks with the forwarding; once the subscriber's channel has
\* overflowed nothing more is written to its socket, the only step its tasks
\* take is the end of the send loop, which leads to disconnect, and a
\* connection that has disconnected is in no subscriber list.
C31_ForwardedVersionsContiguous ==
    /\ []ForwardedContiguously
    /\ [](\A c \in Conns : conn[c].pc = "closed" => ~SenderExists(connections, c))
    /\ [][\A c \in Conns :
            /\ (conn[c].ch.lagged /\ conn[c].pc = "running")
                  => /\ conn'[c].socket = conn[c].socket
                     /\ conn'[c].pc \in {"running", "disconnecting"}
            /\ conn[c].pc = "disconnecting"
                  => /\ conn'[c].socket = conn[c].socket
                     /\ conn'[c].pc \in {"disconnecting", "closed"}]_vars

\* The subscriber was forwarded version 1, then fell behind by more than the
\* buffer holds (versions up to 102 were broadcast) and was disconnected with
\* nothing but version 1 on its socket.
C31_Witness ==
    /\ conn["c1"].pc = "closed"
    /\ Len(Forwarded("c1")) = 1
    /\ Len(stores["x"].events) = ChannelCapacity + 2
    /\ connections = EmptyMap
    /\ \A r \in Tasks : req[r].pc = "done" /\ req[r].response.status = 200

(***************************************************************************)
(* The server's locks: every handler on two request tasks and one          *)
(* WebSocket connection, with each request task scheduled fairly.          *)
(***************************************************************************)
\* The steps of the handler that task r runs, from its first lock on.
RequestStep(r) ==
    \/ EnsureLockStores(r)
    \/ EnsureInsert(r)
    \/ SubmitLockStores(r)
    \/ SubmitLocked(r)
    \/ BroadcastSend(r)
    \/ BroadcastCleanup(r)
    \/ GetRead(r)
    \/ InfoRead(r)

LocksNext ==
    \/ \E r \in Tasks : StartSubmit(r)
    \/ \E r \in Tasks : StartGet(r)
    \/ \E r \in Tasks : EnsureLockStores(r)
    \/ \E r \in Tasks : EnsureInsert(r)
    \/ \E r \in Tasks : SubmitLockStores(r)
    \/ \E r \in Tasks : SubmitLocked(r)
    \/ \E r \in Tasks : BroadcastSend(r)
    \/ \E r \in Tasks : BroadcastCleanup(r)
    \/ \E r \in Tasks : GetRead(r)
    \/ \E r \in Tasks : InfoRead(r)
    \/ \E r \in Tasks : ListStores(r)
    \/ WsConnect("c1")
    \/ WsConfirm("c1")
    \/ WsForward("c1")
    \/ WsRecvError("c1")
    \/ WsClientUnsubscribe("c1")
    \/ WsClientClose("c1")
    \/ WsAbortEffect("c1")
    \/ WsDisconnect("c1")

\* A task that is ready to run is run: tokio polls every woken task, and its
\* RwLock hands the lock to waiters in the order they asked.
SpecLocks ==
    /\ ServerInit
    /\ [][LocksNext]_vars
    /\ \A r \in Tasks : WF_vars(RequestStep(r))

\* Task r is inside a handler.
InHandler(r) == req[r].pc \notin {"idle", "done"}

\* The locks are taken in the order stores, projections, subscriber map: the
\* projections lock is held only by the holder of the stores lock, a task
\* about to take the projections lock holds the stores lock, and a task
\* inside broadcast_event holds both.
LockOrder ==
    /\ wlock.projections # NoTask => wlock.stores = wlock.projections
    /\ \A r \in Tasks :
          /\ req[r].pc \in {"ensure_projections", "lock_projections"}
                => wlock.stores = r /\ wlock.projections = NoTask
          /\ req[r].pc \in {"broadcast", "cleanup"}
                => wlock.stores = r /\ wlock.projections = r
          /\ req[r].pc \in {"ensure_stores", "lock_stores", "read"}
                => wlock.stores # r /\ wlock.projections # r
          /\ ~InHandler(r) => wlock.stores # r /\ wlock.projections # r

\* While a task is inside a handler, some task inside a handler can step.
NoDeadlock ==
    (\E r \in Tasks : InHandler(r)) => \E r \in Tasks : ENABLED RequestStep(r)

FailedSubmit(r) ==
    /\ req[r].pc = "done"
    /\ req[r].kind = "submit"
    /\ req[r].response.status # 200

\* C33: no POST is answered with InvalidVersion (409 VERSION_CONFLICT),
\* whatever the interleaving of the submissions; a failed POST is a duplicate
\* id (409) or a validation error (400), and every store's version is the
\* number of its events.
C33_NoVersionConflict ==
    /\ \A r \in Tasks :
          FailedSubmit(r)
             => /\ req[r].response.error.kind # "InvalidVersion"
                /\ req[r].response.code \in {"DUPLICATE_EVENT", "VALIDATION_ERROR"}
    /\ \A s \in DOMAIN stores :
          /\ get_latest_version(stores[s], s) = Len(stores[s].events)
          /\ \A i \in 1..Len(stores[s].events) : stores[s].events[i].version = i

\* Two submissions to store x that ran concurrently: r2 took the locks first
\* and was given version 1, r1 version 2; both were accepted.
C33_Witness ==
    /\ \A r \in Tasks : req[r].pc = "done" /\ req[r].store = "x"
                           /\ req[r].kind = "submit" /\ req[r].response.status = 200
    /\ req["r1"].response.version = 2
    /\ req["r2"].response.version = 1
    /\ Len(hist) = 2
    /\ hist[1].task = "r2"

\* handle_socket has returned for connection c.
HandleSocketReturned(c) == conn[c].pc \in {"returned", "closed"}

\* C34: once handle_socket has returned for a connection, on whichever path,
\* the connection is in no store's subscriber list.
C34_ReturnedMeansUnsubscribed ==
    \A c \in Conns : HandleSocketReturned(c) => ~SenderExists(connections, c)

(***************************************************************************)
(* A projection that holds several documents, as the client's single       *)
(* document_projection does: events of two aggregates are folded into one  *)
(* state through apply_event.                                              *)
(***************************************************************************)
DocsDocuments == {"x", "y"}

DocsTemplates ==
    { [event_type |-> "DocumentCreated", payload |-> [title |-> JStr("T")]],
      [event_type |-> "CellCreated",
       payload |-> [cell_id |-> JStr("c1"), cell_type |-> JStr("code")]],
      [event_type |-> "CellSourceUpdated",
       payload |-> [cell_id |-> JStr("c1"), source |-> JStr("print(2)")]],
      [event_type |-> "CellExecutionStateChanged",
       payload |-> [cell_id |-> JStr("c1"), execution_state |-> JStr("running")]],
      [event_type |-> "CellOutputCreated",
       payload |-> [output_id |-> JStr("o1"), cell_id |-> JStr("c1"),
                    output_type |-> JStr("terminal")]],
      [event_type |-> "CellMoved",
       payload |-> [cell_id |-> JStr("c1"), fractional_index |-> JStr(<<97, 49>>)]],
      [event_type |-> "CellDeleted", payload |-> [cell_id |-> JStr("c1")]],
      [event_type |-> "DocumentDeleted", payload |-> <<>>] }

\* The next event, of aggregate `document`, folded into the state.
DocsStep(m, tpl, document) ==
    LET k == m.n + 1
        event == Event(k, tpl.event_type, document, tpl.payload, k, k)
        r == apply_event(m.state, event)
    IN [m EXCEPT !.state = IF r.ok THEN r.state ELSE m.state,
                 !.before = m.state,
                 !.event = event,
                 !.result = IF r.ok THEN EOk ELSE r.err,
                 !.n = k]

DocsInit ==
    /\ mat = NoApply
    /\ ListingIdle
    /\ ClientIdle
    /\ frac = FracIdle
    /\ StoreIdle
    /\ ProjIdle
    /\ ServerIdle

ApplyTo ==
    /\ mat.n < MaxApplied
    /\ \E tpl \in DocsTemplates, document \in DocsDocuments :
          mat' = DocsStep(mat, tpl, document)
    /\ UNCHANGED notmat

DocsNext == ApplyTo

SpecDocs == DocsInit /\ [][DocsNext]_vars

\* The cells of state st that belong to another document than d.
CellsOfOthers(st, d) == {k \in DOMAIN st.cells : st.cells[k].document_id # d}

\* The outputs of state st whose cell belongs to another document than d.
OutputsOfOthers(st, d) ==
    {o \in DOMAIN st.outputs : st.outputs[o].cell_id \in CellsOfOthers(st, d)}

\* C35: an applied event of aggregate X creates, changes and removes no cell
\* whose document_id is not X and no output of such a cell.
C35_OtherDocumentsUntouched ==
    mat.result = EOk
       => LET X == mat.event.aggregate_id IN
          /\ CellsOfOthers(mat.state, X) = CellsOfOthers(mat.before, X)
          /\ \A k \in CellsOfOthers(mat.before, X) :
                mat.state.cells[k] = mat.before.cells[k]
          /\ \A o \in OutputsOfOthers(mat.before, X) :
                /\ o \in DOMAIN mat.state.outputs
                /\ mat.state.outputs[o] = mat.before.outputs[o]

\* The ids of the cells get_document_cells returns, whatever the order in
\* which the map yields its values.
ListedCells(st, d) ==
    { {cells[i].id : i \in DOMAIN cells} :
          cells \in {get_document_cells(st, d, values) :
                        values \in IterationOrders(st.cells)} }

StateStrings == {"idle", "queued", "running", "completed", "error", "paused"}

ExecTemplates ==
    { [event_type |-> "CellCreated",
       payload |-> [cell_id |-> JStr("c1"), cell_type |-> JStr("code")]],
      [event_type |-> "CellCreated",
       payload |-> [cell_id |-> JStr("c2"), cell_type |-> JStr("markdown")]],
      [event_type |-> "CellExecutionStateChanged", payload |-> [cell_id |-> JStr("c1")]],
      [event_type |-> "CellExecutionStateChanged",
       payload |-> [cell_id |-> JStr("c1"), execution_state |-> JNum(1)]],
      [event_type |-> "CellExecutionStateChanged",
       payload |-> [cell_id |-> JStr("c2"), execution_state |-> JStr("running")]] }
    \cup { [event_type |-> "CellExecutionStateChanged",
            payload |-> [cell_id |-> JStr("c1"), execution_state |-> JStr(x)]] :
               x \in StateStrings }

ApplyExec ==
    /\ mat.n < MaxApplied
    /\ \E tpl \in ExecTemplates : mat' = DocsStep(mat, tpl, ProjAggregate)
    /\ UNCHANGED notmat

ExecNext == ApplyExec

SpecExec == DocsInit /\ [][ExecNext]_vars

\* The execution state a CellExecutionStateChanged event names, if it names a
\* recognised one.
NamedState(event) ==
    LET named == as_str(Get(event.payload, "execution_state"))
    IN IF named.some
          /\ named.v \in {"idle", "queued", "running", "completed", "error"}
       THEN Some(named.v) ELSE OptNone

\* C37: CellExecutionStateChanged sets an existing cell's execution_state to
\* the recognised state the event names, whatever the state before; a string
\* that is not recognised leaves it as it was; an event naming a cell that is
\* not in state changes no cell; no other cell changes and none is added or
\* removed.
C37_ExecutionStateSetUnchecked ==
    (mat.result = EOk /\ mat.event.event_type = "CellExecutionStateChanged")
       => LET c == as_str(Get(mat.event.payload, "cell_id")).v
              named == NamedState(mat.event)
          IN /\ DOMAIN mat.state.cells = DOMAIN mat.before.cells
             /\ \A k \in DOMAIN mat.before.cells \ {c} :
                   mat.state.cells[k] = mat.before.cells[k]
             /\ c \in DOMAIN mat.before.cells
                   => mat.state.cells[c].execution_state =
                         IF named.some THEN named.v
                         ELSE mat.before.cells[c].execution_state

\* A completed cell is put back to queued.
C37_Witness ==
    /\ mat.result = EOk
    /\ mat.event.event_type = "CellExecutionStateChanged"
    /\ "c1" \in DOMAIN mat.before.cells
    /\ mat.before.cells["c1"].execution_state = "completed"
    /\ mat.state.cells["c1"].execution_state = "queued"

\* A running cell is told to be "paused" and stays running.
UnrecognisedStateIgnored ==
    /\ mat.result = EOk
    /\ mat.event.event_type = "CellExecutionStateChanged"
    /\ Get(mat.event.payload, "execution_state") = Some(JStr("paused"))
    /\ "c1" \in DOMAIN mat.before.cells
    /\ mat.before.cells["c1"].execution_state = "running"
    /\ mat.state.cells["c1"].execution_state = "running"

(***************************************************************************)
(* The client's rebuild_projections over a local store filled through      *)
(* submit_event for two aggregates.  The id and the timestamp of a local   *)
(* event are Date::now(), the wall clock, which may read less than it did. *)
(***************************************************************************)
WallClock == 1..3

RebuildAggregates == {"x", "y"}

RebuildTemplates ==
    { [event_type |-> "DocumentCreated", payload |-> [title |-> JStr("T")]],
      [event_type |-> "CellCreated",
       payload |-> [cell_id |-> JStr("c1"), cell_type |-> JStr("code")]],
      [event_type |-> "CellSourceUpdated",
       payload |-> [cell_id |-> JStr("c1"), source |-> JStr("print(2)")]] }

\* submit_event on the client, for either aggregate, at any reading of the clock.
ClientSubmitAt ==
    /\ Len(client.sent) < MaxSubmissions
    /\ \E tpl \in RebuildTemplates, aggregate_id \in RebuildAggregates, now \in WallClock :
          LET out == client_submit_event(client, tpl.event_type, aggregate_id,
                                         Text(tpl.payload), now)
          IN client' = [client EXCEPT
                           !.local_store = out.local_store,
                           !.document_projection = out.document_projection,
                           !.last = [op |-> "submit_event", ok |-> out.ok],
                           !.sent = Append(@, Submission(tpl.event_type, aggregate_id,
                                                         Text(tpl.payload), out.ok))]
    /\ UNCHANGED <<stores, projections, req>>
    /\ UNCHANGED notclient

\* EventBookClient::rebuild_projections
client_rebuild_projections(c) ==
    LET events == get_all_events(c.local_store)
        rebuilt == rebuild_from_events(c.document_projection, events)
    IN [ok |-> rebuilt.result = EOk, count |-> Len(events),
        document_projection |-> rebuilt.projection]

ClientRebuild ==
    /\ client.local_store.events # <<>>
    /\ LET out == client_rebuild_projections(client)
       IN client' = [client EXCEPT
                        !.document_projection = out.document_projection,
                        !.last = [op |-> "rebuild_projections", ok |-> out.ok,
                                  count |-> out.count]]
    /\ UNCHANGED <<stores, projections, req>>
    /\ UNCHANGED notclient

RebuildAllNext ==
    \/ ClientSubmitAt
    \/ ClientRebuild

SpecRebuildAll == ClientInit /\ [][RebuildAllNext]_vars

\* What state st holds of document d: the document, its cells, their outputs.
PartOf(st, d) ==
    [document |-> IF d \in DOMAIN st.documents THEN Some(st.documents[d]) ELSE OptNone,
     cells |-> [k \in {x \in DOMAIN st.cells : st.cells[x].document_id = d}
                   |-> st.cells[k]],
     outputs |-> [o \in {x \in DOMAIN st.outputs :
                            /\ st.outputs[x].cell_id \in DOMAIN st.cells
                            /\ st.cells[st.outputs[x].cell_id].document_id = d}
                     |-> st.outputs[o]]]

\* The events of aggregate d as get_all_events lists them.
ListedOf(s, d) ==
    LET OfAggregate(e) == e.aggregate_id = d
    IN SelectSeq(get_all_events(s), OfAggregate)

\* C38: after rebuild_projections, what the projection holds of each aggregate
\* is what folding that aggregate's events in version order gives, and
\* get_all_events lists each aggregate's events in version order.
C38_RebuildFollowsVersions ==
    (client.last.op = "rebuild_projections" /\ client.last.ok)
       => \A d \in RebuildAggregates :
             LET in_order == get_events(client.local_store, d)
                 folded == rebuild_from_events(NewProjection, in_order)
             IN /\ ListedOf(client.local_store, d) = in_order
                /\ folded.result = EOk
                      => PartOf(client.document_projection.state, d)
                            = PartOf(folded.projection.state, d)

(***************************************************************************)
(* src/lib.rs: the Node binding's EventStore, a Vec<Event> with no version *)
(* map, run in lockstep with the core InMemoryEventStore: every event is   *)
(* offered to both.                                                        *)
(***************************************************************************)
\* EventStore::new (Node binding)
NewNodeStore == [events |-> <<>>]

\* The greatest element of a non-empty set of integers.
MaxOf(S) == CHOOSE m \in S : \A x \in S : x <= m

\* EventStore::get_latest_version (Node binding): the greatest version among
\* the aggregate's events, 0 without any.
node_get_latest_version(n, aggregate_id) ==
    LET versions == {n.events[i].version :
                        i \in {j \in 1..Len(n.events) :
                                  n.events[j].aggregate_id = aggregate_id}}
    IN IF versions = {} THEN 0 ELSE MaxOf(versions)

\* EventStore::get_event_count (Node binding)
node_get_event_count(n) == Len(n.events)

NodeOk == [kind |-> "Ok"]
NodeInvalidArg(msg) == [kind |-> "InvalidArg", msg |-> msg]

node_append_event_ids_per_aggregate(n, event) ==
    LET of_aggregate == {i \in 1..Len(n.events) :
                            n.events[i].aggregate_id = event.aggregate_id}
    IN
    IF \E i \in of_aggregate : n.events[i].id = event.id
    THEN [store |-> n, result |-> NodeInvalidArg("already exists")]
    ELSE IF of_aggregate # {}
            /\ event.version # MaxOf({n.events[i].version : i \in of_aggregate}) + 1
    THEN [store |-> n, result |-> NodeInvalidArg("Invalid version")]
    ELSE IF of_aggregate = {} /\ event.version # 1
    THEN [store |-> n, result |-> NodeInvalidArg("First event")]
    ELSE [store |-> [n EXCEPT !.events = Append(@, event)], result |-> NodeOk]

\* EventStore::append_event (Node binding): the store after the call and the
\* call's result.
node_append_event(n, event) ==
    LET of_aggregate == {i \in 1..Len(n.events) :
                            n.events[i].aggregate_id = event.aggregate_id}
    IN
    IF \E i \in 1..Len(n.events) : n.events[i].id = event.id
    THEN [store |-> n, result |-> NodeInvalidArg("already exists")]
    ELSE IF of_aggregate # {}
            /\ event.version # MaxOf({n.events[i].version : i \in of_aggregate}) + 1
    THEN [store |-> n, result |-> NodeInvalidArg("Invalid version")]
    ELSE IF of_aggregate = {} /\ event.version # 1
    THEN [store |-> n, result |-> NodeInvalidArg("First event")]
    ELSE [store |-> [n EXCEPT !.events = Append(@, event)], result |-> NodeOk]

NodeInit ==
    /\ store = NewStore
    /\ call = [event |-> NoEvent, result |-> [kind |-> "none"],
               node |-> NewNodeStore, node_result |-> [kind |-> "none"]]
    /\ frac = FracIdle
    /\ ProjIdle
    /\ MatIdle
    /\ ListingIdle
    /\ ClientIdle
    /\ ServerIdle

\* The same event is offered to both stores.
AppendBoth ==
    \E id \in EventIds, a \in Aggregates, v \in OfferedVersions :
        LET event == Event(id, "DocumentTitleUpdated", a, <<>>, TimestampOf(id), v)
            r == append_event(store, event)
            nr == node_append_event(call.node, event)
        IN /\ store' = r.store
           /\ call' = [event |-> event, result |-> r.result,
                       node |-> nr.store, node_result |-> nr.result]
           /\ UNCHANGED notstore

NodeNext == AppendBoth

SpecNode == NodeInit /\ [][NodeNext]_vars

\* C39: offered the same calls, the Node binding's store and the core store
\* accept and reject the same events, for the same reason (duplicate id
\* before version), and after every call hold the same events and report the
\* same latest version of every aggregate and the same event count.
C39_NodeStoreAgrees ==
    /\ call.result.kind = "Ok" <=> call.node_result.kind = "Ok"
    /\ call.result.kind = "DuplicateEventId"
          <=> call.node_result = NodeInvalidArg("already exists")
    /\ call.result.kind = "InvalidVersion"
          <=> call.node_result \in {NodeInvalidArg("Invalid version"),
                                    NodeInvalidArg("First event")}
    /\ call.node.events = store.events
    /\ node_get_event_count(call.node) = get_event_count(store)
    /\ \A a \in Aggregates :
          node_get_latest_version(call.node, a) = get_latest_version(store, a)

\* Both stores hold events of two aggregates and have just refused an event
\* whose id is already stored under the other aggregate.
C39_Witness ==
    /\ call.result.kind = "DuplicateEventId"
    /\ call.node_result.kind = "InvalidArg"
    /\ \E i \in 1..Len(store.events) :
          /\ store.events[i].id = call.event.id
          /\ store.events[i].aggregate_id # call.event.aggregate_id
    /\ \A a \in Aggregates : node_get_latest_version(call.node, a) >= 1

(***************************************************************************)
(* The timestamp gate of apply_new_events: the log of one aggregate grows  *)
(* by events with any timestamp, zero and negative ones included (the      *)
(* field is an i64 that nothing checks), and projection `inc` is fed       *)
(* through apply_new_events only.                                          *)
(***************************************************************************)
GateTimes == (-1)..MaxTime

GateAppend ==
    /\ Len(store.events) < MaxLog
    /\ \E tpl \in LogTemplates, t \in GateTimes :
          LET event == Event(Len(store.events) + 1, tpl.event_type, ProjAggregate,
                             tpl.payload, t,
                             get_latest_version(store, ProjAggregate) + 1)
              r == append_event(store, event)
          IN /\ r.result = EOk
             /\ store' = r.store
             /\ call' = [event |-> event, result |-> r.result]
    /\ UNCHANGED <<inc, fed, reb, notproj>>

GateNext ==
    \/ GateAppend
    \/ ProjApplyNew
    \/ ProjApplyBatch

SpecGate == ProjInit /\ [][GateNext]_vars

\* The timestamps of the handled events of a batch.
HandledTimes(batch) ==
    {batch[i].timestamp : i \in {j \in 1..Len(batch) :
                                    handles_event_type(batch[j].event_type)}}

\* C40: fed through apply_new_events only, a projection's
\* last_processed_timestamp is never below zero and never decreases; a call
\* that changes the state raises it; an event alone in its call is left out
\* when its timestamp is not above it (so on a fresh projection any event
\* with timestamp 0 or less), and when it is applied its timestamp becomes
\* the new value; after a batch that succeeded the value is the greatest of
\* the value before and the timestamps of the batch's handled events.
C40_TimestampOnlyAdvances ==
    /\ [](last_processed_timestamp(inc) >= 0)
    /\ [](\/ last_processed_timestamp(inc) = 0
          \/ \E i \in 1..fed :
                get_events(store, ProjAggregate)[i].timestamp
                   = last_processed_timestamp(inc))
    /\ [][/\ last_processed_timestamp(inc') >= last_processed_timestamp(inc)
          /\ inc' # inc => last_processed_timestamp(inc') > last_processed_timestamp(inc)
          /\ fed' = fed + 1
                => /\ FedBatch[1].timestamp <= last_processed_timestamp(inc)
                         => inc' = inc
                   /\ inc' # inc
                         => last_processed_timestamp(inc') = FedBatch[1].timestamp
          /\ (fed' > fed /\ apply_new_events(inc, FedBatch).result = EOk)
                => last_processed_timestamp(inc')
                      = MaxOf({last_processed_timestamp(inc)}
                                 \cup HandledTimes(FedBatch))]_vars

\* A fresh projection left out an event with a timestamp below 1 and then
\* applied one with timestamp 2.
C40_Witness ==
    /\ fed = 2
    /\ get_events(store, ProjAggregate)[1].event_type = "DocumentCreated"
    /\ get_events(store, ProjAggregate)[1].timestamp <= 0
    /\ get_events(store, ProjAggregate)[2].timestamp = 2
    /\ inc.state.documents = EmptyMap
    /\ inc.state.cells # EmptyMap
    /\ last_processed_timestamp(inc) = 2
====
